---------------------------- MODULE Spec2Model ----------------------------
(***************************************************************************)
(* The RGS to ERPNext mapping engine: the classification of a flat RGS     *)
(* record (enhanced_rgs_mapping.py), the hierarchy resolver and the batch  *)
(* pipeline around them (process_rgs_enhanced.py, build_utils.py).         *)
(*                                                                         *)
(* A Python str is a sequence of one-character strings, so that slicing,   *)
(* startswith, `in` and lower() are computed as Python computes them.      *)
(***************************************************************************)
EXTENDS Integers, Sequences, FiniteSets, TLC

VARIABLES
  canonical_data,     \* the loaded list of raw records (process_all_rgs_data)
  concept_mappings,   \* dict: rgs code -> list of concept strings
  i,                  \* offset of the current batch in canonical_data
  k,                  \* records of the current batch already handled
  processed_records,  \* list built by process_all_rgs_data
  error_log,          \* codes printed by the except branch of the loop
  b,                  \* records handled by process_rgs_batch_for_build
  processed,          \* list built by process_rgs_batch_for_build
  code0,              \* hierarchy walk: the code the walk started from
  cur,                \* hierarchy walk: the current code, or None
  steps,              \* hierarchy walk: calls of find_parent_rgs_code made
  sources,            \* the files on disk: the record collection and labels.csv
  result,             \* what process_all_rgs_data returned, once it has
  output_file,        \* rgs_classification_corrected.json, or None
  fn,                 \* import: create_rgs_classifications or execute
  pc,                 \* import: the place the call stands at
  fixture_file,       \* import: rgs_classification.json.disabled on disk
  rgs_data_sorted,    \* import: the loaded records, sorted
  level,              \* import: turn of `for level in range(1, 5)`
  pos,                \* import: records of level_records already handled
  docs,               \* the RGS Classification documents, in insert order
  committed,          \* how many of docs the last commit covers
  ignore_update_nsm,  \* frappe.local.flags.ignore_update_nsm
  rebuild_tree_calls, \* calls of rebuild_tree made
  created_count,      \* import: created_count
  errors,             \* import: errors
  returned,           \* import: what the call returned, once it has
  accounts,           \* the Account documents, in insert order
  applicable_codes,   \* chart: what get_applicable_rgs_codes returned
  company,            \* chart: the company of generate_chart_of_accounts
  g,                  \* chart: records of sorted_codes already handled
  created_accounts,   \* chart: created_accounts
  chart_errors,       \* chart: errors
  calls,              \* calls of the two account-creating methods made
  last_call,          \* the last of those calls and what it gave
  optimized_file,     \* loader: rgs_classification_optimized.json on disk
  loader_pc,          \* loader: the place load_optimized_rgs_fixtures stands at
  fi,                 \* loader: offset of the current batch in fixtures
  fk,                 \* loader: fixtures of the current batch already handled
  loaded_count,       \* loader: loaded_count
  failed,             \* loader: the fixtures the except branch printed
  runs                \* loader: what each finished run gave

\* The state of the loop of process_all_rgs_data, of
\* process_rgs_batch_for_build and of the hierarchy walk.
pipeline_vars == << canonical_data, concept_mappings, i, k, processed_records,
                    error_log, b, processed, code0, cur, steps >>

\* The state around the loop of process_all_rgs_data: what it loads from,
\* what it returns and what it writes.
load_vars == << sources, result, output_file >>

\* The state of create_rgs_classifications and of the migration execute.
import_vars == << fn, pc, fixture_file, rgs_data_sorted, level, pos,
                 created_count, errors, returned >>

\* The part of the site the imports act on.
site_vars == << docs, committed, ignore_update_nsm, rebuild_tree_calls >>

\* The state of generate_chart_of_accounts and of the calls that create an
\* Account.
account_vars == << accounts, applicable_codes, company, g, created_accounts,
                  chart_errors, calls, last_call >>

\* The state of load_optimized_rgs_fixtures.
loader_vars == << optimized_file, loader_pc, fi, fk, loaded_count, failed,
                 runs >>

vars == << pipeline_vars, load_vars, import_vars, site_vars, account_vars,
           loader_vars >>

\* The state a pipeline, and the state a walk, leaves alone.
outside_pipeline == << load_vars, import_vars, site_vars, account_vars,
                       loader_vars >>

\* The state the loaders and the output of process_all_rgs_data leave alone,
\* next to the loop's.
outside_load == << import_vars, site_vars, account_vars, loader_vars >>

\* The state an import leaves alone.
outside_import == << pipeline_vars, load_vars, account_vars, loader_vars >>

\* The state the creation of accounts leaves alone.
outside_accounts == << pipeline_vars, load_vars, import_vars, site_vars,
                       loader_vars >>

\* The state load_optimized_rgs_fixtures leaves alone, next to the flag and
\* the tree of the site.
outside_loader == << pipeline_vars, load_vars, import_vars, account_vars >>

---------------------------------------------------------------------------
(* Python values *)

\* Python's None.  A str holds one-character strings only, so this tuple is
\* no str.
None == << "None" >>

\* A key that the record dict does not hold.
Missing == << "Missing" >>

\* dict.get(key, default) on a record field
Get(v, default) == IF v = Missing THEN default ELSE v

\* rgsNivo is a JSON number, a JSON string, null or absent.
NivoInt(n) == [t |-> "int", n |-> n, s |-> << >>]
NivoStr(s) == [t |-> "str", n |-> 0, s |-> s]
NivoNone == [t |-> "none", n |-> 0, s |-> << >>]
NivoMissing == [t |-> "missing", n |-> 0, s |-> << >>]

GetNivo(v, default) == IF v.t = "missing" THEN default ELSE v

UpperChars == << "A","B","C","D","E","F","G","H","I","J","K","L","M",
                 "N","O","P","Q","R","S","T","U","V","W","X","Y","Z" >>
LowerChars == << "a","b","c","d","e","f","g","h","i","j","k","l","m",
                 "n","o","p","q","r","s","t","u","v","w","x","y","z" >>

\* str.lower(), one character: the table of the letters that change
LowerOf ==
  [c \in { UpperChars[n] : n \in 1..Len(UpperChars) } |->
     LowerChars[CHOOSE n \in 1..Len(UpperChars) : UpperChars[n] = c]]

LowerChar(c) == IF c \in DOMAIN LowerOf THEN LowerOf[c] ELSE c

\* str.lower()
lower(s) == [n \in 1..Len(s) |-> LowerChar(s[n])]

\* str.startswith(prefix)
startswith(s, prefix) ==
  /\ Len(s) >= Len(prefix)
  /\ SubSeq(s, 1, Len(prefix)) = prefix

\* str.endswith(suffix)
endswith(s, suffix) ==
  /\ Len(s) >= Len(suffix)
  /\ SubSeq(s, Len(s) - Len(suffix) + 1, Len(s)) = suffix

\* `sub in s` for two str
Contains(sub, s) ==
  \E n \in 0..(Len(s) - Len(sub)) : SubSeq(s, n + 1, n + Len(sub)) = sub

\* any(keyword in s for keyword in keywords)
AnyIn(keywords, s) == \E n \in 1..Len(keywords) : Contains(keywords[n], s)

\* re.search(pattern, s, re.IGNORECASE).  A pattern of the catalogue is a
\* literal, or two literals around `.*`; it is held as the tuple of its
\* literals.  Under IGNORECASE a literal matches when the lowered texts match,
\* and `[Ss]` is the letter s.  `.` matches any character but a newline.
re_search(pattern, s) ==
  LET ls == lower(s)
      first == lower(pattern[1])
      second == lower(pattern[Len(pattern)])
      At(lit, n) == /\ n + Len(lit) - 1 <= Len(ls)
                    /\ SubSeq(ls, n, n + Len(lit) - 1) = lit
  IN  IF Len(pattern) = 1
      THEN \E n \in 1..Len(ls) : At(first, n)
      ELSE \E n \in 1..Len(ls) : \E m \in 1..Len(ls) :
             /\ At(first, n)
             /\ m >= n + Len(first)
             /\ At(second, m)
             /\ \A j \in (n + Len(first))..(m - 1) : ls[j] # "\n"

---------------------------------------------------------------------------
(* RGSToERPNextMapper.__init__: the pattern and keyword catalogues *)

---------------------------------------------------------------------------
(* The parts of the state a run does not use *)

\* process_all_rgs_data is not called from its start: no file is read, no
\* value is returned and no file is written.
NoLoad ==
  /\ sources = << >>
  /\ result = "not called"
  /\ output_file = << >>

\* No import is called.
NoImport ==
  /\ fn = "none"
  /\ pc = "done"
  /\ fixture_file = << >>
  /\ rgs_data_sorted = << >>
  /\ level = 0
  /\ pos = 0
  /\ docs = << >>
  /\ committed = 0
  /\ ignore_update_nsm = FALSE
  /\ rebuild_tree_calls = 0
  /\ created_count = 0
  /\ errors = << >>
  /\ returned = "not called"

\* No account is created.
NoAccounts ==
  /\ accounts = << >>
  /\ applicable_codes = << >>
  /\ company = ""
  /\ g = 0
  /\ created_accounts = << >>
  /\ chart_errors = << >>
  /\ calls = 0
  /\ last_call = << >>

\* load_optimized_rgs_fixtures is not called.
NoLoader ==
  /\ optimized_file = << >>
  /\ loader_pc = "done"
  /\ fi = 0
  /\ fk = 0
  /\ loaded_count = 0
  /\ failed = << >>
  /\ runs = << >>
balance_sheet_assets ==
  [ patterns |-> <<
       << <<"B","I","v","a">> >>,
       << <<"B","M","v","a">> >>,
       << <<"B","F","i","n">> >>,
       << <<"B","V","o","r">> >>,
       << <<"B","E","f","f">> >>,
       << <<"B","L","i","q">> >>,
       << <<"B","K","a","s">> >>,
       << <<"B","B","a","n">> >>,
       << <<"B","G","i","r">> >>,
       << <<"B","S","p","a","a">> >>,
       << <<"B","V","o","o">> >> >>,
    keywords |-> <<
       <<"a","c","t","i","v","a">>,
       <<"v","o","r","d","e","r","i","n","g","e","n">>,
       <<"l","i","q","u","i","d","e">>,
       <<"k","a","s">>,
       <<"b","a","n","k">>,
       <<"g","i","r","o">>,
       <<"s","p","a","a","r">>,
       <<"e","f","f","e","c","t","e","n">>,
       <<"a","a","n","d","e","l","e","n">>,
       <<"o","b","l","i","g","a","t","i","e","s">>,
       <<"v","o","o","r","r","a","d","e","n">>,
       <<"d","e","b","i","t","e","u","r","e","n">>,
       <<"i","n","v","e","n","t","a","r","i","s">>,
       <<"m","a","c","h","i","n","e","s">>,
       <<"g","e","b","o","u","w","e","n">>,
       <<"g","o","o","d","w","i","l","l">> >> ]

balance_sheet_liabilities ==
  [ patterns |-> <<
       << <<"B","L","a","s">> >>,
       << <<"B","K","o","r">> >>,
       << <<"B","K","r","e">> >>,
       << <<"B","V","e","r">> >>,
       << <<"B","V","o","o">>, <<"s","c","h","u","l","d">> >>,
       << <<"B","B","e","l">> >>,
       << <<"B","H","y","p">> >>,
       << <<"B","L","e","n">> >> >>,
    keywords |-> <<
       <<"s","c","h","u","l","d","e","n">>,
       <<"c","r","e","d","i","t","e","u","r","e","n">>,
       <<"v","e","r","s","c","h","u","l","d","i","g","d">>,
       <<"v","o","o","r","z","i","e","n","i","n","g">>,
       <<"b","e","l","a","s","t","i","n","g">>,
       <<"b","t","w">>,
       <<"h","y","p","o","t","h","e","e","k">>,
       <<"l","e","n","i","n","g">>,
       <<"r","e","n","t","e">>,
       <<"p","e","n","s","i","o","e","n">>,
       <<"s","o","c","i","a","l","e"," ","l","a","s","t","e","n">>,
       <<"l","e","v","e","r","a","n","c","i","e","r","s">> >> ]

balance_sheet_equity ==
  [ patterns |-> <<
       << <<"B","E","i","g">> >>,
       << <<"B","K","a","p">> >>,
       << <<"B","R","e","s">> >>,
       << <<"B","W","i","n">> >>,
       << <<"B","V","e","r">>, <<"v","e","r","l","i","e","s">> >> >>,
    keywords |-> <<
       <<"e","i","g","e","n"," ","v","e","r","m","o","g","e","n">>,
       <<"k","a","p","i","t","a","a","l">>,
       <<"r","e","s","e","r","v","e">>,
       <<"w","i","n","s","t">>,
       <<"v","e","r","l","i","e","s">>,
       <<"a","a","n","d","e","l","e","n">>,
       <<"i","n","b","r","e","n","g">>,
       <<"r","e","s","u","l","t","a","a","t">>,
       <<"b","e","s","t","e","m","m","i","n","g">> >> ]

income_patterns ==
  [ patterns |-> <<
       << <<"W","O","m","z">> >>,
       << <<"W","O","p","b">> >>,
       << <<"W","V","e","r">>, <<"v","e","r","k","o","o","p">> >>,
       << <<"W","B","e","d">> >>,
       << <<"W","F","i","n">>, <<"b","a","t","e","n">> >> >>,
    keywords |-> <<
       <<"o","m","z","e","t">>,
       <<"v","e","r","k","o","o","p">>,
       <<"o","p","b","r","e","n","g","s","t">>,
       <<"i","n","k","o","m","s","t","e","n">>,
       <<"h","o","n","o","r","a","r","i","u","m">>,
       <<"s","u","b","s","i","d","i","e">>,
       <<"r","e","n","t","e"," ","b","a","t","e","n">>,
       <<"d","i","v","i","d","e","n","d">>,
       <<"h","u","u","r"," ","o","n","t","v","a","n","g","e","n">> >> ]

expense_patterns ==
  [ patterns |-> <<
       << <<"W","K","o","s">> >>,
       << <<"W","A","f","s">> >>,
       << <<"W","B","e","d">>, <<"k","o","s","t","e","n">> >>,
       << <<"W","F","i","n">>, <<"l","a","s","t","e","n">> >>,
       << <<"W","B","e","l">> >>,
       << <<"W","L","o","o">> >>,
       << <<"W","H","u","i">> >> >>,
    keywords |-> <<
       <<"k","o","s","t","e","n">>,
       <<"u","i","t","g","a","v","e","n">>,
       <<"a","f","s","c","h","r","i","j","v","i","n","g">>,
       <<"s","a","l","a","r","i","s">>,
       <<"l","o","o","n">>,
       <<"h","u","u","r">>,
       <<"e","n","e","r","g","i","e">>,
       <<"t","e","l","e","f","o","o","n">>,
       <<"v","e","r","z","e","k","e","r","i","n","g">>,
       <<"r","e","n","t","e"," ","l","a","s","t","e","n">>,
       <<"b","e","l","a","s","t","i","n","g">>,
       <<"b","o","e","k","h","o","u","d","i","n","g">>,
       <<"k","a","n","t","o","o","r">>,
       <<"a","u","t","o">> >> ]


---------------------------------------------------------------------------
(* RGSToERPNextMapper: the statement category (root_type) *)

RootTypes == {"Asset", "Liability", "Equity", "Income", "Expense"}

\* What a call yields when it raises AttributeError (a method of str called
\* on None).
AttributeError == "AttributeError"

\* One turn of the loop over the concepts of a B code: the category the
\* concept names, "" when the loop goes on to the next concept.
balance_sheet_concept(concept) ==
  LET lc == lower(concept)
  IN  IF Contains(<< "l", "i", "a", "b", "i", "l", "i", "t", "y" >>, lc) \/ Contains(<< "l", "i", "a", "b", "i", "l", "i", "t", "i", "e", "s" >>, lc)
      THEN "Liability"
      ELSE IF Contains(<< "e", "q", "u", "i", "t", "y" >>, lc) THEN "Equity"
      ELSE IF Contains(<< "a", "s", "s", "e", "t" >>, lc) THEN "Asset"
      ELSE ""

\* One turn of the loop over the concepts of a W code.
pnl_concept(concept) ==
  LET lc == lower(concept)
  IN  IF Contains(<< "i", "n", "c", "o", "m", "e" >>, lc) \/ Contains(<< "r", "e", "v", "e", "n", "u", "e" >>, lc)
      THEN "Income"
      ELSE IF Contains(<< "e", "x", "p", "e", "n", "s", "e" >>, lc) \/ Contains(<< "c", "o", "s", "t" >>, lc)
      THEN "Expense"
      ELSE ""

\* `for concept in concept_mappings: if ...: return ...` of a B code: the
\* value returned for the first concept that names a category, "" when the
\* loop ends without returning.
balance_sheet_concepts(concepts) ==
  IF \E n \in 1..Len(concepts) : balance_sheet_concept(concepts[n]) # ""
  THEN LET n == CHOOSE n \in 1..Len(concepts) :
                  /\ balance_sheet_concept(concepts[n]) # ""
                  /\ \A m \in 1..(n - 1) : balance_sheet_concept(concepts[m]) = ""
       IN  balance_sheet_concept(concepts[n])
  ELSE ""

\* The same loop of a W code.
pnl_concepts(concepts) ==
  IF \E n \in 1..Len(concepts) : pnl_concept(concepts[n]) # ""
  THEN LET n == CHOOSE n \in 1..Len(concepts) :
                  /\ pnl_concept(concepts[n]) # ""
                  /\ \A m \in 1..(n - 1) : pnl_concept(concepts[m]) = ""
       IN  pnl_concept(concepts[n])
  ELSE ""

_matches_patterns(rgs_code, rgs_desc, pattern_dict) ==
  \/ \E n \in 1..Len(pattern_dict.patterns) :
       re_search(pattern_dict.patterns[n], rgs_code)
  \/ \E n \in 1..Len(pattern_dict.keywords) :
       Contains(pattern_dict.keywords[n], rgs_desc)

\* A plausible slip: the Asset catalogue tested before the other two.
balance_sheet_by_patterns_asset_first(rgs_code, rgs_desc) ==
  IF _matches_patterns(rgs_code, rgs_desc, balance_sheet_assets)
  THEN "Asset"
  ELSE IF _matches_patterns(rgs_code, rgs_desc, balance_sheet_liabilities)
  THEN "Liability"
  ELSE IF _matches_patterns(rgs_code, rgs_desc, balance_sheet_equity)
  THEN "Equity"
  ELSE ""

\* The pattern-based classification of a B code: the category returned, ""
\* when no catalogue matches.
balance_sheet_by_patterns(rgs_code, rgs_desc) ==
  IF _matches_patterns(rgs_code, rgs_desc, balance_sheet_liabilities)
  THEN "Liability"
  ELSE IF _matches_patterns(rgs_code, rgs_desc, balance_sheet_equity)
  THEN "Equity"
  ELSE IF _matches_patterns(rgs_code, rgs_desc, balance_sheet_assets)
  THEN "Asset"
  ELSE ""

\* A plausible slip: the credit branch without the equity keywords.
balance_sheet_by_dc_no_equity(rgs_desc, rgs_dc) ==
  IF rgs_dc = << "D" >> THEN "Asset"
  ELSE IF rgs_dc = << "C" >> THEN "Liability"
  ELSE "Asset"

\* The debit/credit analysis of a B code and its default.
balance_sheet_by_dc(rgs_desc, rgs_dc) ==
  IF rgs_dc = << "D" >> THEN "Asset"
  ELSE IF rgs_dc = << "C" >>
  THEN IF AnyIn(<< << "e", "i", "g", "e", "n" >>, << "k", "a", "p", "i", "t", "a", "a", "l" >>, << "r", "e", "s", "e", "r", "v", "e" >>, << "w", "i", "n", "s", "t" >> >>, rgs_desc)
       THEN "Equity"
       ELSE "Liability"
  ELSE "Asset"

\* A plausible slip: the patterns consulted before the concepts.
_classify_balance_sheet_account_patterns_first(rgs_code, rgs_desc, rgs_dc, concepts) ==
  LET by_patterns == balance_sheet_by_patterns(rgs_code, rgs_desc)
      by_concept == balance_sheet_concepts(concepts)
  IN  IF by_patterns # "" THEN by_patterns
      ELSE IF by_concept # "" THEN by_concept
      ELSE balance_sheet_by_dc(rgs_desc, rgs_dc)

_classify_balance_sheet_account(rgs_code, rgs_desc, rgs_dc, concepts) ==
  LET by_concept == balance_sheet_concepts(concepts)
      by_patterns == balance_sheet_by_patterns(rgs_code, rgs_desc)
  IN  IF by_concept # "" THEN by_concept
      ELSE IF by_patterns # "" THEN by_patterns
      ELSE balance_sheet_by_dc(rgs_desc, rgs_dc)

\* The pattern-based classification of a W code: the category returned, ""
\* when no catalogue matches.
pnl_by_patterns(rgs_code, rgs_desc) ==
  IF _matches_patterns(rgs_code, rgs_desc, income_patterns) THEN "Income"
  ELSE IF _matches_patterns(rgs_code, rgs_desc, expense_patterns) THEN "Expense"
  ELSE ""

\* A plausible slip: the description tested before the indicator.
pnl_by_dc_description_first(rgs_desc, rgs_dc) ==
  IF AnyIn(<< << "o", "m", "z", "e", "t" >>, << "o", "p", "b", "r", "e", "n", "g", "s", "t" >>, << "i", "n", "k", "o", "m", "s", "t" >> >>, rgs_desc) THEN "Income"
  ELSE IF rgs_dc = << "C" >> THEN "Income"
  ELSE IF rgs_dc = << "D" >> THEN "Expense"
  ELSE "Expense"

\* The debit/credit analysis of a W code and the description-based fallback.
pnl_by_dc(rgs_desc, rgs_dc) ==
  IF rgs_dc = << "C" >> THEN "Income"
  ELSE IF rgs_dc = << "D" >> THEN "Expense"
  ELSE IF AnyIn(<< << "o", "m", "z", "e", "t" >>, << "o", "p", "b", "r", "e", "n", "g", "s", "t" >>, << "i", "n", "k", "o", "m", "s", "t" >> >>, rgs_desc)
  THEN "Income"
  ELSE "Expense"

_classify_pnl_account(rgs_code, rgs_desc, rgs_dc, concepts) ==
  LET by_concept == pnl_concepts(concepts)
      by_patterns == pnl_by_patterns(rgs_code, rgs_desc)
  IN  IF by_concept # "" THEN by_concept
      ELSE IF by_patterns # "" THEN by_patterns
      ELSE pnl_by_dc(rgs_desc, rgs_dc)

\* A plausible slip: the leading W read in any letter case.
_fallback_classification_any_case(rgs_code, rgs_desc, rgs_dc) ==
  IF rgs_dc = << "D" >>
  THEN IF startswith(lower(rgs_code), << "w" >>) THEN "Expense" ELSE "Asset"
  ELSE IF rgs_dc = << "C" >>
  THEN IF startswith(lower(rgs_code), << "w" >>) THEN "Income" ELSE "Liability"
  ELSE IF startswith(rgs_code, << "B" >>) THEN "Asset" ELSE "Expense"

\* A plausible slip: no category when neither the indicator nor a leading B
\* decides.
_fallback_classification_unknown(rgs_code, rgs_desc, rgs_dc) ==
  IF rgs_dc = << "D" >>
  THEN IF startswith(rgs_code, << "W" >>) THEN "Expense" ELSE "Asset"
  ELSE IF rgs_dc = << "C" >>
  THEN IF startswith(rgs_code, << "W" >>) THEN "Income" ELSE "Liability"
  ELSE IF startswith(rgs_code, << "B" >>) THEN "Asset" ELSE "Unknown"

_fallback_classification(rgs_code, rgs_desc, rgs_dc) ==
  IF rgs_dc = << "D" >>
  THEN IF startswith(rgs_code, << "W" >>) THEN "Expense" ELSE "Asset"
  ELSE IF rgs_dc = << "C" >>
  THEN IF startswith(rgs_code, << "W" >>) THEN "Income" ELSE "Liability"
  ELSE IF startswith(rgs_code, << "B" >>) THEN "Asset" ELSE "Expense"

\* (rgs_record.get('rgsOmskort', '') or '').lower()
record_desc(rgs_record) ==
  LET d == Get(rgs_record.rgsOmskort, << >>)
  IN  IF d = None THEN << >> ELSE lower(d)

\* A plausible slip: the concepts read before the section of the code is
\* known, those of the balance sheet first.
determine_root_type_concepts_before_section(rgs_record, concepts) ==
  LET rgs_code == Get(rgs_record.rgsCode, << >>)
      rgs_desc == record_desc(rgs_record)
      rgs_dc == Get(rgs_record.rgsDc, << >>)
  IN  IF rgs_code = None THEN AttributeError
      ELSE IF balance_sheet_concepts(concepts) # ""
      THEN balance_sheet_concepts(concepts)
      ELSE IF pnl_concepts(concepts) # "" THEN pnl_concepts(concepts)
      ELSE IF startswith(rgs_code, << "B" >>)
      THEN _classify_balance_sheet_account(rgs_code, rgs_desc, rgs_dc, << >>)
      ELSE IF startswith(rgs_code, << "W" >>)
      THEN _classify_pnl_account(rgs_code, rgs_desc, rgs_dc, << >>)
      ELSE _fallback_classification(rgs_code, rgs_desc, rgs_dc)

\* concepts is the list handed over as concept_mappings; the None of the
\* default and the empty list both skip the concept loop.
determine_root_type(rgs_record, concepts) ==
  LET rgs_code == Get(rgs_record.rgsCode, << >>)
      rgs_desc == record_desc(rgs_record)
      rgs_dc == Get(rgs_record.rgsDc, << >>)
  IN  IF rgs_code = None THEN AttributeError
      ELSE IF startswith(rgs_code, << "B" >>)
      THEN _classify_balance_sheet_account(rgs_code, rgs_desc, rgs_dc, concepts)
      ELSE IF startswith(rgs_code, << "W" >>)
      THEN _classify_pnl_account(rgs_code, rgs_desc, rgs_dc, concepts)
      ELSE _fallback_classification(rgs_code, rgs_desc, rgs_dc)

---------------------------------------------------------------------------
(* RGSToERPNextMapper: account type, report type, balance side *)

\* A plausible slip: the receivables tested before the bank accounts.
_determine_asset_type_receivable_first(rgs_code, rgs_desc) ==
  IF AnyIn(<< << "v", "o", "r", "d", "e", "r", "i", "n", "g" >>, << "d", "e", "b", "i", "t", "e", "u", "r" >> >>, rgs_desc)
  THEN "Receivable"
  ELSE IF AnyIn(<< << "b", "a", "n", "k" >>, << "k", "a", "s" >>, << "g", "i", "r", "o" >>, << "l", "i", "q", "u", "i", "d", "e" >> >>, rgs_desc)
  THEN "Bank"
  ELSE IF \/ AnyIn(<< << "I", "v", "a" >>, << "M", "v", "a" >> >>, rgs_code)
          \/ AnyIn(<< << "v", "a", "s", "t" >>, << "m", "a", "c", "h", "i", "n", "e" >>, << "g", "e", "b", "o", "u", "w" >>, << "i", "n", "v", "e", "n", "t", "a", "r", "i", "s" >> >>, rgs_desc)
  THEN "Fixed Asset"
  ELSE IF AnyIn(<< << "v", "o", "o", "r", "r", "a", "a", "d" >>, << "i", "n", "v", "e", "n", "t", "a", "r", "i", "s" >> >>, rgs_desc)
  THEN "Stock"
  ELSE "Current Asset"

_determine_asset_type(rgs_code, rgs_desc) ==
  IF AnyIn(<< << "b", "a", "n", "k" >>, << "k", "a", "s" >>, << "g", "i", "r", "o" >>, << "l", "i", "q", "u", "i", "d", "e" >> >>, rgs_desc)
  THEN "Bank"
  ELSE IF AnyIn(<< << "v", "o", "r", "d", "e", "r", "i", "n", "g" >>, << "d", "e", "b", "i", "t", "e", "u", "r" >> >>, rgs_desc)
  THEN "Receivable"
  ELSE IF \/ AnyIn(<< << "I", "v", "a" >>, << "M", "v", "a" >> >>, rgs_code)
          \/ AnyIn(<< << "v", "a", "s", "t" >>, << "m", "a", "c", "h", "i", "n", "e" >>, << "g", "e", "b", "o", "u", "w" >>, << "i", "n", "v", "e", "n", "t", "a", "r", "i", "s" >> >>, rgs_desc)
  THEN "Fixed Asset"
  ELSE IF AnyIn(<< << "v", "o", "o", "r", "r", "a", "a", "d" >>, << "i", "n", "v", "e", "n", "t", "a", "r", "i", "s" >> >>, rgs_desc)
  THEN "Stock"
  ELSE "Current Asset"

\* A plausible slip: the creditor keyword spelled in English.
_determine_liability_type_creditor(rgs_code, rgs_desc) ==
  IF AnyIn(<< << "b", "e", "l", "a", "s", "t", "i", "n", "g" >>, << "b", "t", "w" >>, << "l", "o", "o", "n", "h", "e", "f", "f", "i", "n", "g" >> >>, rgs_desc)
  THEN "Tax"
  ELSE IF AnyIn(<< << "c", "r", "e", "d", "i", "t", "o", "r" >>, << "l", "e", "v", "e", "r", "a", "n", "c", "i", "e", "r" >> >>, rgs_desc)
  THEN "Payable"
  ELSE "Current Liability"

_determine_liability_type(rgs_code, rgs_desc) ==
  IF AnyIn(<< << "b", "e", "l", "a", "s", "t", "i", "n", "g" >>, << "b", "t", "w" >>, << "l", "o", "o", "n", "h", "e", "f", "f", "i", "n", "g" >> >>, rgs_desc)
  THEN "Tax"
  ELSE IF AnyIn(<< << "c", "r", "e", "d", "i", "t", "e", "u", "r" >>, << "l", "e", "v", "e", "r", "a", "n", "c", "i", "e", "r" >> >>, rgs_desc)
  THEN "Payable"
  ELSE "Current Liability"

_determine_income_type(rgs_code, rgs_desc) == "Income Account"

_determine_expense_type(rgs_code, rgs_desc) ==
  IF AnyIn(<< << "a", "f", "s", "c", "h", "r", "i", "j", "v", "i", "n", "g" >> >>, rgs_desc) THEN "Depreciation"
  ELSE IF AnyIn(<< << "b", "e", "l", "a", "s", "t", "i", "n", "g" >> >>, rgs_desc) THEN "Tax"
  ELSE "Expense Account"

\* A plausible slip: the bank keywords tested before the category.
determine_account_type_bank_first(rgs_record, root_type) ==
  LET rgs_code == Get(rgs_record.rgsCode, << >>)
      rgs_desc == record_desc(rgs_record)
  IN  IF AnyIn(<< << "b", "a", "n", "k" >>, << "k", "a", "s" >>, << "g", "i", "r", "o" >>, << "l", "i", "q", "u", "i", "d", "e" >> >>, rgs_desc)
      THEN "Bank"
      ELSE IF root_type = "Asset" THEN _determine_asset_type(rgs_code, rgs_desc)
      ELSE IF root_type = "Liability"
      THEN _determine_liability_type(rgs_code, rgs_desc)
      ELSE IF root_type = "Equity" THEN "Equity"
      ELSE IF root_type = "Income"
      THEN _determine_income_type(rgs_code, rgs_desc)
      ELSE IF root_type = "Expense"
      THEN _determine_expense_type(rgs_code, rgs_desc)
      ELSE ""

determine_account_type(rgs_record, root_type) ==
  LET rgs_code == Get(rgs_record.rgsCode, << >>)
      rgs_desc == record_desc(rgs_record)
  IN  IF root_type = "Asset" THEN _determine_asset_type(rgs_code, rgs_desc)
      ELSE IF root_type = "Liability"
      THEN _determine_liability_type(rgs_code, rgs_desc)
      ELSE IF root_type = "Equity" THEN "Equity"
      ELSE IF root_type = "Income"
      THEN _determine_income_type(rgs_code, rgs_desc)
      ELSE IF root_type = "Expense"
      THEN _determine_expense_type(rgs_code, rgs_desc)
      ELSE ""

\* A plausible slip: the leading character read in any letter case.
determine_report_type_any_case(rgs_code) ==
  IF rgs_code = None THEN AttributeError
  ELSE IF startswith(lower(rgs_code), << "b" >>) THEN "Balance Sheet"
  ELSE IF startswith(lower(rgs_code), << "w" >>) THEN "Profit and Loss"
  ELSE ""

determine_report_type(rgs_code) ==
  IF rgs_code = None THEN AttributeError
  ELSE IF startswith(rgs_code, << "B" >>) THEN "Balance Sheet"
  ELSE IF startswith(rgs_code, << "W" >>) THEN "Profit and Loss"
  ELSE ""

\* A plausible slip: the two sides swapped.
map_balance_must_be_swapped(rgs_dc) ==
  IF rgs_dc = << "D" >> THEN "Credit"
  ELSE IF rgs_dc = << "C" >> THEN "Debit"
  ELSE ""

map_balance_must_be(rgs_dc) ==
  IF rgs_dc = << "D" >> THEN "Debit"
  ELSE IF rgs_dc = << "C" >> THEN "Credit"
  ELSE ""

---------------------------------------------------------------------------
(* Hierarchy resolver and grouping status *)

\* A plausible slip: the short-code branch taken up to five characters.
find_parent_rgs_code_short_up_to_5(rgs_code) ==
  IF rgs_code = None \/ rgs_code = << >> \/ rgs_code \in {<< "B" >>, << "W" >>}
  THEN None
  ELSE IF Len(rgs_code) <= 1 THEN None
  ELSE IF Len(rgs_code) <= 5 THEN << rgs_code[1] >>
  ELSE SubSeq(rgs_code, 1, Len(rgs_code) - 3)

\* A plausible slip: rgs_code[-1] for rgs_code[0].
find_parent_rgs_code_last_char(rgs_code) ==
  IF rgs_code = None \/ rgs_code = << >> \/ rgs_code \in {<< "B" >>, << "W" >>}
  THEN None
  ELSE IF Len(rgs_code) <= 1 THEN None
  ELSE IF Len(rgs_code) <= 4 THEN << rgs_code[Len(rgs_code)] >>
  ELSE SubSeq(rgs_code, 1, Len(rgs_code) - 3)

\* A plausible slip: rgs_code[3:] for rgs_code[:-3].
find_parent_rgs_code_drop_head(rgs_code) ==
  IF rgs_code = None \/ rgs_code = << >> \/ rgs_code \in {<< "B" >>, << "W" >>}
  THEN None
  ELSE IF Len(rgs_code) <= 1 THEN None
  ELSE IF Len(rgs_code) <= 4 THEN << rgs_code[1] >>
  ELSE SubSeq(rgs_code, 4, Len(rgs_code))

\* process_rgs_enhanced.find_parent_rgs_code.  `not rgs_code` holds of None
\* and of the empty str.
find_parent_rgs_code(rgs_code) ==
  IF rgs_code = None \/ rgs_code = << >> \/ rgs_code \in {<< "B" >>, << "W" >>}
  THEN None
  ELSE IF Len(rgs_code) <= 1 THEN None
  ELSE IF Len(rgs_code) <= 4 THEN << rgs_code[1] >>
  ELSE SubSeq(rgs_code, 1, Len(rgs_code) - 3)

\* build_utils.find_parent_rgs_code, called on a non-empty str only.
build_find_parent_rgs_code(rgs_code) ==
  IF Len(rgs_code) <= 1 \/ rgs_code \in {<< "B" >>, << "W" >>}
  THEN None
  ELSE IF Len(rgs_code) <= 4 THEN << rgs_code[1] >>
  ELSE SubSeq(rgs_code, 1, Len(rgs_code) - 3)

\* A plausible slip: `len(rgs_code) > 5` for `len(rgs_code) > 4`.
get_parent_code_from_6(rgs_code) ==
  IF Len(rgs_code) <= 1 THEN None
  ELSE IF Len(rgs_code) > 5 THEN SubSeq(rgs_code, 1, Len(rgs_code) - 3)
  ELSE IF Len(rgs_code) > 1 THEN << rgs_code[1] >>
  ELSE None

\* RGSClassification.get_parent_code, of a str.
get_parent_code(rgs_code) ==
  IF Len(rgs_code) <= 1 THEN None
  ELSE IF Len(rgs_code) > 4 THEN SubSeq(rgs_code, 1, Len(rgs_code) - 3)
  ELSE IF Len(rgs_code) > 1 THEN << rgs_code[1] >>
  ELSE None

\* RGSTemplate.get_parent_rgs_code, of a str.
get_parent_rgs_code(rgs_code) ==
  IF Len(rgs_code) <= 1 THEN None
  ELSE IF Len(rgs_code) > 4 THEN SubSeq(rgs_code, 1, Len(rgs_code) - 3)
  ELSE IF Len(rgs_code) > 1 THEN << rgs_code[1] >>
  ELSE None

DigitChars == << "0","1","2","3","4","5","6","7","8","9" >>

IsDigit(c) == \E n \in 1..Len(DigitChars) : DigitChars[n] = c

DigitValue(c) == (CHOOSE n \in 1..Len(DigitChars) : DigitChars[n] = c) - 1

\* str(n) of an int
RECURSIVE int_to_str(_)
int_to_str(n) ==
  IF n < 0 THEN << "-" >> \o int_to_str(0 - n)
  ELSE IF n < 10 THEN << DigitChars[n + 1] >>
  ELSE int_to_str(n \div 10) \o << DigitChars[(n % 10) + 1] >>

\* str.strip() of blanks, as int() does before it reads the digits
RECURSIVE strip(_)
strip(s) ==
  IF s # << >> /\ Head(s) = " " THEN strip(Tail(s))
  ELSE IF s # << >> /\ s[Len(s)] = " " THEN strip(SubSeq(s, 1, Len(s) - 1))
  ELSE s

RECURSIVE digits_value(_)
digits_value(s) ==
  IF s = << >> THEN 0
  ELSE 10 * digits_value(SubSeq(s, 1, Len(s) - 1)) + DigitValue(s[Len(s)])

\* int(s) of a str: blanks around, an optional sign, then decimal digits;
\* anything else raises ValueError (ok is FALSE).
str_to_int(s) ==
  LET t == strip(s)
      signed == t # << >> /\ Head(t) \in {"+", "-"}
      body == IF signed THEN Tail(t) ELSE t
      ok == body # << >> /\ \A n \in 1..Len(body) : IsDigit(body[n])
  IN  [ok |-> ok,
       v |-> IF ~ok THEN 0
             ELSE IF signed /\ Head(t) = "-" THEN 0 - digits_value(body)
             ELSE digits_value(body)]

\* Python's truth value of an rgsNivo value
nivo_truthy(nivo) ==
  \/ nivo.t = "int" /\ nivo.n # 0
  \/ nivo.t = "str" /\ nivo.s # << >>

\* str(rgs_nivo) of a truthy value
nivo_str(nivo) == IF nivo.t = "int" THEN int_to_str(nivo.n) ELSE nivo.s

\* The is_group of process_rgs_record_enhanced:
\*   try: nivo_int = int(str(rgs_nivo)) if rgs_nivo else 5; is_group = nivo_int < 5
\*   except (ValueError, TypeError): is_group = False
is_group_of(rgs_nivo) ==
  IF ~nivo_truthy(rgs_nivo) THEN 5 < 5
  ELSE LET r == str_to_int(nivo_str(rgs_nivo))
       IN  IF r.ok THEN r.v < 5 ELSE FALSE

\* build_utils.determine_if_group: int(nivo) if nivo else 5, 1 or 0.
determine_if_group(nivo) ==
  IF ~nivo_truthy(nivo) THEN (IF 5 < 5 THEN 1 ELSE 0)
  ELSE IF nivo.t = "int" THEN (IF nivo.n < 5 THEN 1 ELSE 0)
  ELSE LET r == str_to_int(nivo.s)
       IN  IF r.ok /\ r.v < 5 THEN 1 ELSE 0

---------------------------------------------------------------------------
(* process_rgs_enhanced.process_rgs_record_enhanced *)

\* A plausible slip: the concepts of another code when the own code has none.
concepts_of_any_code(mappings, rgs_code) ==
  IF rgs_code \in DOMAIN mappings THEN mappings[rgs_code]
  ELSE IF DOMAIN mappings # { }
  THEN mappings[CHOOSE c \in DOMAIN mappings : TRUE]
  ELSE << >>

\* concept_mappings.get(rgs_code, [])
concepts_of(mappings, rgs_code) ==
  IF rgs_code \in DOMAIN mappings THEN mappings[rgs_code] ELSE << >>

\* The frappe_record the call builds: the key, the raw fields the derived
\* ones are computed from, and the derived fields.  A field holds
\* AttributeError when the call that computes it raises.
process_rgs_record_enhanced(record, mappings) ==
  LET rgs_code == Get(record.rgsCode, << >>)
      rgs_omskort == Get(record.rgsOmskort, << >>)
      rgs_dc == Get(record.rgsDc, << >>)
      rgs_nivo == GetNivo(record.rgsNivo, NivoStr(<< >>))
      concepts == concepts_of(mappings, rgs_code)
      root_type == determine_root_type(record, concepts)
  IN  [name |-> rgs_code,
       rgs_code |-> rgs_code,
       rgs_omskort |-> rgs_omskort,
       rgs_dc |-> rgs_dc,
       rgs_nivo |-> rgs_nivo,
       is_group |-> is_group_of(rgs_nivo),
       parent_rgs_classification |->
         IF rgs_code \notin {<< "B" >>, << "W" >>} THEN find_parent_rgs_code(rgs_code)
         ELSE None,
       report_type |-> determine_report_type(rgs_code),
       root_type |-> root_type,
       account_type |-> determine_account_type(record, root_type),
       balance_must_be |-> map_balance_must_be(rgs_dc)]


\* process_rgs_record_enhanced catches nothing: it raises when a call of the
\* mapper raises, and returns frappe_record otherwise.
raises(frappe_record) ==
  \/ frappe_record.root_type = AttributeError
  \/ frappe_record.report_type = AttributeError

---------------------------------------------------------------------------
(* build_utils: the build-time mappings and process_rgs_batch_for_build *)

derive_root_type_from_rgs_code(rgs_code) ==
  IF startswith(rgs_code, << "B" >>)
  THEN IF AnyIn(<< << "B", "I", "v", "a" >>, << "B", "M", "a", "t" >>, << "B", "F", "i", "n" >> >>, rgs_code) THEN "Asset"
       ELSE IF AnyIn(<< << "B", "K", "o", "r" >>, << "B", "L", "a", "n" >> >>, rgs_code) THEN "Liability"
       ELSE IF AnyIn(<< << "B", "E", "i", "g" >> >>, rgs_code) THEN "Equity"
       ELSE "Asset"
  ELSE IF startswith(rgs_code, << "W" >>)
  THEN IF AnyIn(<< << "W", "O", "m", "z" >>, << "W", "B", "a", "t" >> >>, rgs_code) THEN "Income"
       ELSE "Expense"
  ELSE "Asset"

derive_account_type_from_rgs_code(rgs_code, root_type) ==
  IF Contains(<< "B", "a", "n", "k" >>, rgs_code) \/ endswith(rgs_code, << "K", "a", "s" >>) THEN "Bank"
  ELSE IF Contains(<< "D", "e", "b" >>, rgs_code) THEN "Receivable"
  ELSE IF Contains(<< "C", "r", "d" >>, rgs_code) THEN "Payable"
  ELSE IF root_type = "Asset" /\ AnyIn(<< << "B", "I", "v", "a" >>, << "B", "M", "a", "t" >> >>, rgs_code)
  THEN "Fixed Asset"
  ELSE IF root_type = "Income" THEN "Income Account"
  ELSE IF root_type = "Expense" THEN "Expense Account"
  ELSE IF root_type = "Asset" THEN "Fixed Asset"
  ELSE IF root_type = "Liability" THEN "Payable"
  ELSE IF root_type = "Equity" THEN "Equity"
  ELSE "Fixed Asset"

derive_erpnext_mappings_build_time(record) ==
  LET rgs_code == Get(record.rgsCode, << >>)
      root_type == derive_root_type_from_rgs_code(rgs_code)
  IN  [report_type |->
         IF startswith(rgs_code, << "B" >>) THEN "Balance Sheet"
         ELSE IF startswith(rgs_code, << "W" >>) THEN "Profit and Loss"
         ELSE "Balance Sheet",
       root_type |-> root_type,
       account_type |-> derive_account_type_from_rgs_code(rgs_code, root_type)]

\* The fixture process_rgs_batch_for_build builds of a record it keeps.
build_fixture(record) ==
  LET rgs_code == Get(record.rgsCode, << >>)
      erpnext_mappings == derive_erpnext_mappings_build_time(record)
  IN  [name |-> rgs_code,
       rgs_code |-> rgs_code,
       rgs_omskort |-> Get(record.rgsOmskort, << >>),
       rgs_dc |-> Get(record.rgsDc, << >>),
       rgs_nivo |-> GetNivo(record.rgsNivo, NivoNone),
       erpnext_report_type |-> erpnext_mappings.report_type,
       erpnext_root_type |-> erpnext_mappings.root_type,
       erpnext_account_type |-> erpnext_mappings.account_type,
       parent_rgs_classification |-> build_find_parent_rgs_code(rgs_code),
       is_group |-> determine_if_group(GetNivo(record.rgsNivo, NivoInt(5)))]

---------------------------------------------------------------------------
(* Bounds and the inputs drawn within them *)

\* Longest code of a hierarchy walk.
MaxCodeLen == 10

\* Longest list of records loaded.
MaxBatch == 3

\* process_all_rgs_data: batch_size
batch_size == 100

Min(x, y) == IF x <= y THEN x ELSE y

Prefixes(s) == { SubSeq(s, 1, n) : n \in 0..Min(Len(s), MaxCodeLen) }

\* Codes of the two families built of a four-character group and
\* three-character segments, and of a family with another leading character.
CodeBases ==
  { << "B", "I", "v", "a", "K", "o", "u", "O", "n", "d", "A", "a", "n" >>, << "B", "K", "r", "e", "H", "a", "n", "N", "e", "d", "B", "i", "n" >>, << "W", "O", "m", "z", "N", "e", "t", "V", "e", "r", "K", "o", "r" >>,
    << "W", "K", "o", "s", "A", "f", "s", "M", "v", "a", "G", "e", "b" >>, << "X", "A", "b", "c", "D", "e", "f", "G", "h", "i", "J", "k", "l" >> }

HierarchyCodes == UNION { Prefixes(s) : s \in CodeBases }

\* Values of rgsCode: codes of both families with and without a catalogue
\* pattern, in other letter case, with another leading character, empty,
\* null and absent.
ClassifyCodes ==
  { << "B" >>, << "W" >>, << "B", "B", "a", "n" >>, << "B", "K", "r", "e" >>, << "B", "E", "i", "g" >>, << "B", "K", "R", "E" >>, << "B", "V", "o", "o" >>, << "B", "V", "o", "o", "S", "c", "h", "u", "l", "d" >>,
    << "B", "x", "y", "z" >>, << "B", "I", "v", "a", "K", "o", "u", "O", "n", "d" >>, << "W", "O", "m", "z" >>, << "W", "K", "o", "s" >>, << "W", "B", "e", "d", "k", "o", "s", "t", "e", "n" >>, << "W", "x", "y", "z" >>,
    << "X", "A", "b", "c" >>, << "b", "I", "v", "a" >>, << >>, None, Missing }

\* Values of rgsOmskort
Descriptions ==
  { << >>, None, Missing,
    << "B", "a", "n", "k", " ", "l", "o", "p", "e", "n", "d", "e", " ", "r", "e", "k", "e", "n", "i", "n", "g" >>, << "C", "r", "e", "d", "i", "t", "e", "u", "r", "e", "n" >>, << "E", "i", "g", "e", "n", " ", "v", "e", "r", "m", "o", "g", "e", "n" >>,
    << "O", "m", "z", "e", "t", " ", "v", "e", "r", "k", "o", "o", "p" >>, << "K", "o", "s", "t", "e", "n", " ", "i", "n", "k", "o", "o", "p" >>, << "R", "e", "n", "t", "e", " ", "b", "a", "n", "k" >>, << "A", "a", "n", "d", "e", "l", "e", "n" >>,
    << "O", "v", "e", "r", "i", "g" >> }

\* Values of rgsDc
Indicators == { << "D" >>, << "C" >>, << "d" >>, << >>, None, Missing }

\* Lists of concepts of one code
ConceptLists ==
  { << >>,
    << << "A", "s", "s", "e", "t", "s" >> >>,
    << << "E", "q", "u", "i", "t", "y", "A", "n", "d", "L", "i", "a", "b", "i", "l", "i", "t", "i", "e", "s" >> >>,
    << << "O", "v", "e", "r", "i", "g" >>, << "e", "q", "u", "i", "t", "y" >>, << "L", "I", "A", "B", "I", "L", "I", "T", "Y" >> >>,
    << << "R", "e", "v", "e", "n", "u", "e" >>, << "C", "o", "s", "t", "O", "f", "S", "a", "l", "e", "s" >> >>,
    << << "O", "p", "e", "r", "a", "t", "i", "n", "g", "E", "x", "p", "e", "n", "s", "e", "s" >>, << "I", "n", "c", "o", "m", "e" >> >>,
    << << "L", "i", "a", "b", "i", "l", "i", "t", "i", "e", "s" >>, << "A", "s", "s", "e", "t", "s" >> >>,
    << << "A", "s", "s", "e", "t", "s" >>, << "R", "e", "v", "e", "n", "u", "e" >> >> }

\* Values of rgsNivo
NivoValues ==
  { NivoInt(0), NivoInt(1), NivoInt(3), NivoInt(4), NivoInt(5), NivoInt(6),
    NivoStr(<< "3" >>), NivoStr(<< "5" >>), NivoStr(<< " ", "4" >>),
    NivoStr(<< "a", "b", "c" >>), NivoStr(<< >>), NivoNone, NivoMissing }

Rec(code, desc, dc, nivo) ==
  [rgsCode |-> code, rgsOmskort |-> desc, rgsDc |-> dc, rgsNivo |-> nivo]

\* One record to classify, with the dict that holds the concepts of its code.
\* load_concept_mappings keeps a row only when its code and its concept are
\* not empty, so no key is the empty str and no list is empty.
ClassifyInputs ==
  { [data |-> << Rec(c, d, dc, NivoInt(5)) >>,
     mappings |-> IF c \in {<< >>, None, Missing} \/ h = << >>
                  THEN << >> ELSE c :> h]
      : c \in ClassifyCodes, d \in Descriptions,
        dc \in Indicators, h \in ConceptLists }

\* One record of each level value.
LevelInputs ==
  { [data |-> << Rec(c, << "O", "v", "e", "r", "i", "g" >>, << "D" >>, n) >>, mappings |-> << >>]
      : c \in { << "B", "I", "v", "a" >>, None }, n \in NivoValues }

\* Records of the lists of several records.
BatchRecords ==
  { Rec(<< "B" >>, << "B", "a", "l", "a", "n", "s" >>, << "C" >>, NivoInt(1)),
    Rec(<< "B", "I", "v", "a" >>, << "I", "m", "m", "a", "t", "e", "r", "i", "e", "l", "e", " ", "v", "a", "s", "t", "e", " ", "a", "c", "t", "i", "v", "a" >>, << "D" >>, NivoInt(2)),
    Rec(<< "B", "I", "v", "a", "K", "o", "u" >>, << "K", "o", "s", "t", "e", "n" >>, << "D" >>, NivoStr(<< "3" >>)),
    Rec(<< "W", "O", "m", "z" >>, << "O", "m", "z", "e", "t" >>, << "C" >>, NivoInt(2)),
    Rec(None, << "O", "v", "e", "r", "i", "g" >>, << "C" >>, NivoNone),
    Rec(Missing, Missing, Missing, NivoMissing) }

BatchInputs ==
  { [data |-> d, mappings |-> m]
      : d \in UNION { [1..n -> BatchRecords] : n \in 0..MaxBatch },
        m \in { << >>, << "B", "I", "v", "a" >> :> << << "L", "i", "a", "b", "i", "l", "i", "t", "i", "e", "s" >> >> } }

\* Codes of the records classified by the fallbacks and by the subtype
\* lookups: the codes of the mapper's own test, codes without a catalogue
\* pattern, with another leading character, in lower case, with a
\* fixed-asset fragment, and the empty code.
CaseCodes ==
  { << "B", "B", "a", "n" >>, << "B", "K", "r", "e" >>, << "B", "E", "i", "g" >>, << "W", "O", "m", "z" >>, << "W", "K", "o", "s" >>, << "B", "x", "y", "z" >>, << "W", "x", "y", "z" >>, << "X", "A", "b", "c" >>,
    << "w", "O", "m", "z" >>, << "B", "M", "v", "a", "T", "e", "r" >>, << >> }

\* Descriptions that hold a keyword of the fallbacks or of the subtype
\* lookups and no (or another) keyword of the catalogues, and the
\* descriptions of the concrete cases in English.
CaseDescriptions ==
  { << "E", "i", "g", "e", "n", "a", "a", "r" >>, << "I", "n", "k", "o", "m", "s", "t" >>, << "D", "i", "v", "e", "r", "s", "e", "n" >>,
    << "D", "e", "b", "i", "t", "e", "u", "r", "e", "n", " ", "b", "a", "n", "k" >>, << "M", "a", "c", "h", "i", "n", "e", "s", " ", "v", "o", "o", "r", "r", "a", "a", "d" >>, << "V", "o", "o", "r", "r", "a", "a", "d" >>, << "I", "n", "v", "e", "n", "t", "a", "r", "i", "s" >>,
    << "V", "o", "r", "d", "e", "r", "i", "n", "g" >>, << "B", "e", "l", "a", "s", "t", "i", "n", "g", " ", "c", "r", "e", "d", "i", "t", "e", "u", "r", "e", "n" >>, << "L", "e", "v", "e", "r", "a", "n", "c", "i", "e", "r", "s" >>,
    << "A", "f", "s", "c", "h", "r", "i", "j", "v", "i", "n", "g", " ", "b", "e", "l", "a", "s", "t", "i", "n", "g" >>,
    << "B", "a", "n", "k", " ", "c", "u", "r", "r", "e", "n", "t", " ", "a", "c", "c", "o", "u", "n", "t" >>, << "T", "r", "a", "d", "e", " ", "c", "r", "e", "d", "i", "t", "o", "r", "s" >>, << "O", "w", "n", "e", "r", "'", "s", " ", "e", "q", "u", "i", "t", "y" >>,
    << "S", "a", "l", "e", "s", " ", "r", "e", "v", "e", "n", "u", "e" >>, << "P", "u", "r", "c", "h", "a", "s", "e", " ", "c", "o", "s", "t", "s" >> }

\* One record of those codes and descriptions, with no concepts.
CaseInputs ==
  { [data |-> << Rec(c, d, dc, NivoInt(5)) >>, mappings |-> << >>]
      : c \in CaseCodes, d \in CaseDescriptions,
        dc \in { << "D" >>, << "C" >>, << >> } }

---------------------------------------------------------------------------
(* The batch pipelines *)

Init ==
  /\ \E in \in ClassifyInputs \cup LevelInputs \cup BatchInputs :
       /\ canonical_data = in.data
       /\ concept_mappings = in.mappings
  /\ i = 0
  /\ k = 0
  /\ processed_records = << >>
  /\ error_log = << >>
  /\ b = 0
  /\ processed = << >>
  /\ code0 = << >>
  /\ cur = None
  /\ steps = 0
  /\ NoLoad
  /\ NoImport
  /\ NoAccounts
  /\ NoLoader

\* canonical_data[i:i+batch_size]
batch == SubSeq(canonical_data, i + 1, Min(i + batch_size, Len(canonical_data)))

\* process_all_rgs_data: one turn of `for record in batch`.  An empty
\* canonical_data makes the function return before the loop.
ProcessRecord ==
  /\ canonical_data # << >>
  /\ i < Len(canonical_data)
  /\ k < Len(batch)
  /\ LET record == batch[k + 1]
         frappe_record == process_rgs_record_enhanced(record, concept_mappings)
     IN  IF raises(frappe_record)
         THEN /\ error_log' = Append(error_log, Get(record.rgsCode, << "U", "N", "K", "N", "O", "W", "N" >>))
              /\ UNCHANGED processed_records
         ELSE /\ processed_records' = Append(processed_records, frappe_record)
              /\ UNCHANGED error_log
  /\ k' = k + 1
  /\ UNCHANGED << canonical_data, concept_mappings, i, b, processed,
                  code0, cur, steps >>
  /\ UNCHANGED outside_pipeline

\* process_all_rgs_data: the end of a batch, `for i in range(0, len, batch_size)`.
NextBatch ==
  /\ canonical_data # << >>
  /\ i < Len(canonical_data)
  /\ k = Len(batch)
  /\ i' = i + batch_size
  /\ k' = 0
  /\ UNCHANGED << canonical_data, concept_mappings, processed_records,
                  error_log, b, processed, code0, cur, steps >>
  /\ UNCHANGED outside_pipeline

\* process_rgs_batch_for_build(canonical_data): one turn of
\* `for record in batch`.
BuildRecord ==
  /\ b < Len(canonical_data)
  /\ LET record == canonical_data[b + 1]
         rgs_code == Get(record.rgsCode, << >>)
     IN  IF rgs_code = None \/ rgs_code = << >>
         THEN UNCHANGED processed
         ELSE processed' = Append(processed, build_fixture(record))
  /\ b' = b + 1
  /\ UNCHANGED << canonical_data, concept_mappings, i, k, processed_records,
                  error_log, code0, cur, steps >>
  /\ UNCHANGED outside_pipeline

Next == ProcessRecord \/ NextBatch \/ BuildRecord

Spec == Init /\ [][Next]_vars

\* process_all_rgs_data has left its loop.
ProcessDone == canonical_data = << >> \/ i >= Len(canonical_data)

\* process_rgs_batch_for_build has left its loop.
BuildDone == b = Len(canonical_data)

---------------------------------------------------------------------------
(* The same pipelines over the records of the fallbacks and of the account
   types, and over the lists of several records *)

\* The state before the first record of one of the inputs.
InitOf(inputs) ==
  /\ \E in \in inputs :
       /\ canonical_data = in.data
       /\ concept_mappings = in.mappings
  /\ i = 0
  /\ k = 0
  /\ processed_records = << >>
  /\ error_log = << >>
  /\ b = 0
  /\ processed = << >>
  /\ code0 = << >>
  /\ cur = None
  /\ steps = 0
  /\ NoLoad
  /\ NoImport
  /\ NoAccounts
  /\ NoLoader

InitCases == InitOf(ClassifyInputs \cup CaseInputs)

SpecCases == InitCases /\ [][Next]_vars

InitBatches == InitOf(BatchInputs)

SpecBatches == InitBatches /\ [][Next]_vars

---------------------------------------------------------------------------
(* The hierarchy walk: find_parent_rgs_code applied again and again *)

InitHierarchy ==
  /\ code0 \in HierarchyCodes
  /\ cur = code0
  /\ steps = 0
  /\ canonical_data = << >>
  /\ concept_mappings = << >>
  /\ i = 0
  /\ k = 0
  /\ processed_records = << >>
  /\ error_log = << >>
  /\ b = 0
  /\ processed = << >>
  /\ NoLoad
  /\ NoImport
  /\ NoAccounts
  /\ NoLoader

ResolveParent ==
  /\ cur # None
  /\ cur' = find_parent_rgs_code(cur)
  /\ steps' = steps + 1
  /\ UNCHANGED << canonical_data, concept_mappings, i, k, processed_records,
                  error_log, b, processed, code0 >>
  /\ UNCHANGED outside_pipeline

NextHierarchy == ResolveParent

SpecHierarchy == InitHierarchy /\ [][NextHierarchy]_vars

---------------------------------------------------------------------------
(* Claims on the classification engine and the batch pipelines *)

\* The enriched records of process_all_rgs_data so far.
Enriched == { processed_records[n] : n \in 1..Len(processed_records) }

\* The lowered description an enriched record was classified by.
DescOf(rec) == IF rec.rgs_omskort = None THEN << >> ELSE lower(rec.rgs_omskort)

\* The concepts an enriched record was classified with.
HintsOf(rec) == concepts_of(concept_mappings, rec.rgs_code)

LeadingChar(code) == IF code = << >> THEN "" ELSE code[1]

\* C1: every record whose code is a str (empty, of any family or of none) is
\* classified, and its root_type is one of the five categories, never empty
\* and never "Unknown".  Only a record whose code is null is not classified.
C1_RootTypeIsOneOfFive ==
  /\ \A rec \in Enriched : rec.root_type \in RootTypes
  /\ \A n \in 1..Len(error_log) : error_log[n] = None

\* C1 witness: a record with an empty code and no indicator went through the
\* ultimate fallback.
C1_Witness ==
  \E rec \in Enriched :
    rec.rgs_code = << >> /\ rec.rgs_dc = << >> /\ rec.root_type = "Expense"

\* C2: a record with an absent code, description, indicator or level is
\* classified without raising: no record is failed, and every enriched
\* record is fully populated.
C2_AbsentFieldsDegrade ==
  /\ error_log = << >>
  /\ \A rec \in Enriched :
       /\ rec.root_type \in RootTypes
       /\ rec.account_type # ""
       /\ rec.report_type \in {"Balance Sheet", "Profit and Loss", ""}
       /\ rec.balance_must_be \in {"Debit", "Credit", ""}
       /\ rec.is_group \in BOOLEAN

\* The tokens that name a category in a concept, as the claims list them.
StatedTokensOf(category) ==
  CASE category = "Liability" -> { << "l", "i", "a", "b", "i", "l", "i", "t", "y" >> }
    [] category = "Equity" -> { << "e", "q", "u", "i", "t", "y" >> }
    [] category = "Asset" -> { << "a", "s", "s", "e", "t" >> }
    [] category = "Income" -> { << "i", "n", "c", "o", "m", "e" >>, << "r", "e", "v", "e", "n", "u", "e" >> }
    [] category = "Expense" -> { << "e", "x", "p", "e", "n", "s", "e" >>, << "c", "o", "s", "t" >> }

\* The tokens the engine reads: the plural liabilities names Liability too.
TokensOf(category) ==
  IF category = "Liability" THEN { << "l", "i", "a", "b", "i", "l", "i", "t", "y" >>, << "l", "i", "a", "b", "i", "l", "i", "t", "i", "e", "s" >> }
  ELSE StatedTokensOf(category)

\* The categories of a section that a concept names, in any letter case, by
\* the stated tokens or by those the engine reads.
NamedBy(hint, section, stated) ==
  { c \in section :
      \E t \in (IF stated THEN StatedTokensOf(c) ELSE TokensOf(c)) :
        Contains(t, lower(hint)) }

BalanceSheetCategories == {"Liability", "Equity", "Asset"}

ProfitAndLossCategories == {"Income", "Expense"}

\* The section of the categories a code can get by a concept: that of the
\* balance sheet for a B code, of profit and loss for a W code, none else.
SectionOf(code) ==
  IF LeadingChar(code) = "B" THEN BalanceSheetCategories
  ELSE IF LeadingChar(code) = "W" THEN ProfitAndLossCategories
  ELSE { }

\* Whether some concept of the list names a category of the section.
SomeHintNames(hints, section, stated) ==
  \E n \in 1..Len(hints) : NamedBy(hints[n], section, stated) # { }

\* The categories named by the first concept of the list, in list order,
\* that names a category of the section.
NamedByFirstHint(hints, section, stated) ==
  NamedBy(hints[CHOOSE n \in 1..Len(hints) :
                  /\ NamedBy(hints[n], section, stated) # { }
                  /\ \A m \in 1..(n - 1) : NamedBy(hints[m], section, stated) = { }],
          section, stated)

\* Of several categories named by one concept: Liability before Equity
\* before Asset, Income before Expense.
Preferred(categories) ==
  IF "Liability" \in categories THEN "Liability"
  ELSE IF "Equity" \in categories THEN "Equity"
  ELSE IF "Asset" \in categories THEN "Asset"
  ELSE IF "Income" \in categories THEN "Income"
  ELSE "Expense"

\* C3 as stated: for a B code with a concept that holds liability, equity
\* or asset (a W code: income or revenue, expense or cost), the category is
\* the one named by the first such concept, whatever the code pattern, the
\* description and the indicator are.
C3_ConceptHintOverride ==
  \A rec \in Enriched :
    SomeHintNames(HintsOf(rec), SectionOf(rec.rgs_code), TRUE) =>
      rec.root_type \in NamedByFirstHint(HintsOf(rec), SectionOf(rec.rgs_code), TRUE)

\* C3 amended: the tokens are liability or liabilities, equity, asset (and
\* income or revenue, expense or cost); the category is the one named by
\* the first concept that holds a token of the section of the code, and a
\* concept that names several categories counts as Liability before Equity
\* before Asset (Income before Expense).
C3_ConceptHintOverrideWithPlural ==
  \A rec \in Enriched :
    SomeHintNames(HintsOf(rec), SectionOf(rec.rgs_code), FALSE) =>
      rec.root_type =
        Preferred(NamedByFirstHint(HintsOf(rec), SectionOf(rec.rgs_code), FALSE))

\* C3 witness: the code and the description say Liability, the indicator is
\* C, and the concept makes the record an Asset.
C3_Witness ==
  \E rec \in Enriched :
    /\ rec.rgs_code = << "B", "K", "r", "e" >>
    /\ rec.rgs_omskort = << "C", "r", "e", "d", "i", "t", "e", "u", "r", "e", "n" >>
    /\ rec.rgs_dc = << "C" >>
    /\ HintsOf(rec) = << << "A", "s", "s", "e", "t", "s" >> >>
    /\ rec.root_type = "Asset"

\* C4: with no concept that the engine reads as naming a category of the
\* section, the categories of
\* a B code are tested in the order Liability, Equity, Asset, those of a W
\* code in the order Income, Expense, and the first whose code pattern or
\* description keyword matches is the category.
C4_PatternPrecedence ==
  \A rec \in Enriched :
    ~SomeHintNames(HintsOf(rec), SectionOf(rec.rgs_code), FALSE) =>
      LET hit(catalogue) == _matches_patterns(rec.rgs_code, DescOf(rec), catalogue)
      IN  /\ LeadingChar(rec.rgs_code) = "B" =>
               /\ hit(balance_sheet_liabilities) => rec.root_type = "Liability"
               /\ ~hit(balance_sheet_liabilities) /\ hit(balance_sheet_equity)
                    => rec.root_type = "Equity"
               /\ ~hit(balance_sheet_liabilities) /\ ~hit(balance_sheet_equity)
                    /\ hit(balance_sheet_assets) => rec.root_type = "Asset"
          /\ LeadingChar(rec.rgs_code) = "W" =>
               /\ hit(income_patterns) => rec.root_type = "Income"
               /\ ~hit(income_patterns) /\ hit(expense_patterns)
                    => rec.root_type = "Expense"

\* C4 witness: the code says Asset, the description says Liability (rente)
\* and Asset (bank), and the record is a Liability.
C4_Witness ==
  \E rec \in Enriched :
    /\ rec.rgs_code = << "B", "B", "a", "n" >>
    /\ rec.rgs_omskort = << "R", "e", "n", "t", "e", " ", "b", "a", "n", "k" >>
    /\ HintsOf(rec) = << >>
    /\ rec.root_type = "Liability"

\* The three-case length rule of the hierarchy resolver.
ParentRule(code) ==
  IF Len(code) <= 1 \/ code = << "B" >> \/ code = << "W" >> THEN None
  ELSE IF Len(code) \in 2..4 THEN << Head(code) >>
  ELSE SubSeq(code, 1, Len(code) - 3)

\* C5: every call of find_parent_rgs_code in a walk follows the three-case
\* length rule.
C5_ThreeCaseLengthRule == [][cur' = ParentRule(cur)]_vars

\* C5 witness: BIvaKouOnd gave BIvaKou.
C5_Witness ==
  code0 = << "B", "I", "v", "a", "K", "o", "u", "O", "n", "d" >> /\ steps = 1 /\ cur = << "B", "I", "v", "a", "K", "o", "u" >>

\* The walk stands at a root: a code that has no parent.
AtRoot == cur # None /\ find_parent_rgs_code(cur) = None

\* C6 as stated, for the walks that made a call: no call lengthens the
\* code, and the root the walk reaches is the one-character code B or W,
\* within len(code) calls.
C6_WalkReachesBOrW ==
  /\ cur # None => Len(cur) <= Len(code0)
  /\ AtRoot /\ steps >= 1 => cur \in { << "B" >>, << "W" >> } /\ steps <= Len(code0)

\* C6 amended: no call lengthens the code, and the walk from a non-empty
\* code reaches, within len(code) calls, the one-character root that is the
\* leading character of the code: B or W for the codes of the two families.
\* Each call on a code that is no root shortens it.
C6_WalkReachesLeadingChar ==
  /\ cur # None => steps + Len(cur) <= Len(code0)
  /\ cur # None /\ ~AtRoot => Len(find_parent_rgs_code(cur)) < Len(cur)
  /\ AtRoot /\ code0 # << >> =>
       /\ cur = << Head(code0) >>
       /\ steps <= Len(code0)
       /\ Head(code0) \in {"B", "W"} => cur \in { << "B" >>, << "W" >> }

\* C6 witness: the walk from BIvaKouOnd stands at B after three calls.
C6_Witness ==
  code0 = << "B", "I", "v", "a", "K", "o", "u", "O", "n", "d" >> /\ cur = << "B" >> /\ steps = 3 /\ AtRoot

\* The level of an enriched record as a number, 5 (a ledger) when the level
\* is absent or no number.
LevelOf(rec) ==
  IF rec.rgs_nivo.t = "int" THEN rec.rgs_nivo.n
  ELSE IF rec.rgs_nivo.t = "str" /\ str_to_int(rec.rgs_nivo.s).ok
  THEN str_to_int(rec.rgs_nivo.s).v
  ELSE 5

\* C7 as stated: in the output of a batch, a non-null parent is the code of
\* a record of the same output with a strictly smaller level.
C7_ParentInBatchWithSmallerLevel ==
  ProcessDone =>
    \A rec \in Enriched :
      rec.parent_rgs_classification # None =>
        \E par \in Enriched :
          /\ par.rgs_code = rec.parent_rgs_classification
          /\ LevelOf(par) < LevelOf(rec)

\* C7 amended: a non-null parent is a non-empty proper prefix of the code of
\* its record (whether the batch holds a record of that code is not
\* checked).
C7_ParentIsProperPrefix ==
  \A rec \in Enriched :
    rec.parent_rgs_classification # None =>
      /\ Len(rec.parent_rgs_classification) >= 1
      /\ Len(rec.parent_rgs_classification) < Len(rec.rgs_code)
      /\ SubSeq(rec.rgs_code, 1, Len(rec.parent_rgs_classification))
           = rec.parent_rgs_classification

\* C7 witness: a batch that holds BIvaKou and not its parent BIva.
C7_Witness ==
  /\ ProcessDone
  /\ \E rec \in Enriched :
       /\ rec.rgs_code = << "B", "I", "v", "a", "K", "o", "u" >>
       /\ rec.parent_rgs_classification = << "B", "I", "v", "a" >>
  /\ \A par \in Enriched : par.rgs_code # << "B", "I", "v", "a" >>

\* C8: each pipeline ends with one output record per input record, in input
\* order: the n-th output carries the code of the n-th input.
C8_OneOutputPerInputInOrder ==
  /\ ProcessDone =>
       /\ Len(processed_records) = Len(canonical_data)
       /\ \A n \in 1..Len(processed_records) :
            processed_records[n].rgs_code = Get(canonical_data[n].rgsCode, << >>)
  /\ BuildDone =>
       /\ Len(processed) = Len(canonical_data)
       /\ \A n \in 1..Len(processed) :
            processed[n].rgs_code = Get(canonical_data[n].rgsCode, << >>)

\* C9: report_type is Balance Sheet exactly for a leading B, Profit and Loss
\* exactly for a leading W, and empty for every other code, the empty one
\* included.
C9_ReportTypeByLeadingChar ==
  \A rec \in Enriched :
    /\ rec.report_type = "Balance Sheet" <=> LeadingChar(rec.rgs_code) = "B"
    /\ rec.report_type = "Profit and Loss" <=> LeadingChar(rec.rgs_code) = "W"
    /\ LeadingChar(rec.rgs_code) \notin {"B", "W"} => rec.report_type = ""

\* C9 witness: a W code, a code of another family and the empty code are
\* covered by three records; this is the W code.
C9_Witness ==
  \E rec \in Enriched :
    rec.rgs_code = << "W", "O", "m", "z" >> /\ rec.report_type = "Profit and Loss"

\* C10: balance_must_be is Debit exactly for the indicator D, Credit exactly
\* for C and empty otherwise, and two records of a batch with the same
\* indicator have the same balance_must_be.
C10_BalanceSideByIndicator ==
  /\ \A rec \in Enriched :
       /\ rec.balance_must_be = "Debit" <=> rec.rgs_dc = << "D" >>
       /\ rec.balance_must_be = "Credit" <=> rec.rgs_dc = << "C" >>
       /\ rec.rgs_dc \notin { << "D" >>, << "C" >> } => rec.balance_must_be = ""
  /\ \A r1 \in Enriched : \A r2 \in Enriched :
       r1.rgs_dc = r2.rgs_dc => r1.balance_must_be = r2.balance_must_be

\* C10 witness: two records of a batch with the indicator C and different
\* categories are both Credit.
C10_Witness ==
  \E r1 \in Enriched : \E r2 \in Enriched :
    /\ r1.rgs_dc = << "C" >> /\ r2.rgs_dc = << "C" >>
    /\ r1.root_type = "Liability" /\ r2.root_type = "Income"
    /\ r1.balance_must_be = "Credit" /\ r2.balance_must_be = "Credit"


---------------------------------------------------------------------------
(* Claims on grouping, the fallbacks and the account types *)

\* Whether a level value is a number: a JSON number, or a str of digits
\* with an optional sign and blanks around.
LevelIsNumber(nivo) ==
  nivo.t = "int" \/ (nivo.t = "str" /\ str_to_int(nivo.s).ok)

\* The number of a level value that is one.
LevelNumber(nivo) ==
  IF nivo.t = "int" THEN nivo.n ELSE str_to_int(nivo.s).v

\* C11: is_group is true exactly when the level is a number less than 5, in
\* the enriched records and (as 1 or 0) in the fixtures of the build; an
\* absent, null, empty or non-numeric level gives false.
C11_IsGroupIffLevelBelow5 ==
  /\ \A rec \in Enriched :
       rec.is_group <=>
         (LevelIsNumber(rec.rgs_nivo) /\ LevelNumber(rec.rgs_nivo) < 5)
  /\ \A n \in 1..Len(processed) :
       processed[n].is_group = 1 <=>
         (LevelIsNumber(processed[n].rgs_nivo)
            /\ LevelNumber(processed[n].rgs_nivo) < 5)

\* Whether a catalogue of the section of the code matches the record by a
\* code pattern or a description keyword.
SectionMatches(rec) ==
  LET hit(catalogue) == _matches_patterns(rec.rgs_code, DescOf(rec), catalogue)
  IN  IF LeadingChar(rec.rgs_code) = "B"
      THEN hit(balance_sheet_liabilities) \/ hit(balance_sheet_equity)
             \/ hit(balance_sheet_assets)
      ELSE IF LeadingChar(rec.rgs_code) = "W"
      THEN hit(income_patterns) \/ hit(expense_patterns)
      ELSE FALSE

\* No concept names a category of the section of the code, and no catalogue
\* of the section matches.
NoSignal(rec) ==
  /\ ~SomeHintNames(HintsOf(rec), SectionOf(rec.rgs_code), FALSE)
  /\ ~SectionMatches(rec)

\* C12: with no concept naming a category and no pattern or keyword of a
\* catalogue matching, a B code with the indicator D is an Asset, with C it
\* is Equity when the description holds eigen, kapitaal, reserve or winst
\* and a Liability otherwise; a W code with C is Income, with D Expense.
C12_DebitCreditFallback ==
  \A rec \in Enriched :
    NoSignal(rec) =>
      /\ LeadingChar(rec.rgs_code) = "B" /\ rec.rgs_dc = << "D" >>
           => rec.root_type = "Asset"
      /\ LeadingChar(rec.rgs_code) = "B" /\ rec.rgs_dc = << "C" >>
           => rec.root_type =
                (IF \E kw \in { << "e", "i", "g", "e", "n" >>, << "k", "a", "p", "i", "t", "a", "a", "l" >>, << "r", "e", "s", "e", "r", "v", "e" >>, << "w", "i", "n", "s", "t" >> } :
                      Contains(kw, DescOf(rec))
                 THEN "Equity" ELSE "Liability")
      /\ LeadingChar(rec.rgs_code) = "W" /\ rec.rgs_dc = << "C" >>
           => rec.root_type = "Income"
      /\ LeadingChar(rec.rgs_code) = "W" /\ rec.rgs_dc = << "D" >>
           => rec.root_type = "Expense"

\* C12 witness: a B code without pattern, the indicator C and a description
\* that holds eigen and no keyword of a catalogue: Equity by the fallback.
C12_Witness ==
  \E rec \in Enriched :
    /\ rec.rgs_code = << "B", "x", "y", "z" >>
    /\ rec.rgs_omskort = << "E", "i", "g", "e", "n", "a", "a", "r" >>
    /\ rec.rgs_dc = << "C" >>
    /\ NoSignal(rec)
    /\ rec.root_type = "Equity"

\* The description holds omzet, opbrengst or inkomst.
RevenueWord(rec) ==
  \E kw \in { << "o", "m", "z", "e", "t" >>, << "o", "p", "b", "r", "e", "n", "g", "s", "t" >>, << "i", "n", "k", "o", "m", "s", "t" >> } : Contains(kw, DescOf(rec))

\* C13: a W code with no concept naming a category, no pattern or keyword
\* matching and an indicator that is neither D nor C is Income when the
\* description holds omzet, opbrengst or inkomst, and Expense otherwise.
\* Only those records are classified by these words: with the indicator D
\* such a W code is an Expense whatever the description holds, and a code
\* that does not start with W is never Income.
C13_DescriptionFallback ==
  \A rec \in Enriched :
    /\ LeadingChar(rec.rgs_code) = "W" /\ NoSignal(rec)
         /\ rec.rgs_dc \notin { << "D" >>, << "C" >> }
         => rec.root_type = (IF RevenueWord(rec) THEN "Income" ELSE "Expense")
    /\ LeadingChar(rec.rgs_code) = "W" /\ NoSignal(rec) /\ rec.rgs_dc = << "D" >>
         => rec.root_type = "Expense"
    /\ LeadingChar(rec.rgs_code) # "W" => rec.root_type # "Income"

\* C13 witness: a W code without pattern and without indicator whose
\* description holds inkomst (and not the catalogue's inkomsten).
C13_Witness ==
  \E rec \in Enriched :
    /\ rec.rgs_code = << "W", "x", "y", "z" >>
    /\ rec.rgs_omskort = << "I", "n", "k", "o", "m", "s", "t" >>
    /\ rec.rgs_dc = << >>
    /\ NoSignal(rec)
    /\ rec.root_type = "Income"

\* C14: a code whose leading character is neither B nor W is classified by
\* the indicator alone: D gives Expense when the code starts with W and
\* Asset otherwise, C gives Income when it starts with W and Liability
\* otherwise, no indicator gives Asset when it starts with B and Expense
\* otherwise.  For such a code no test of the leading W or B holds, so D
\* is Asset, C is Liability and no indicator is Expense.  A B code with no
\* concept naming a category, no pattern or keyword matching and no
\* indicator is an Asset.
C14_UltimateFallback ==
  \A rec \in Enriched :
    /\ LeadingChar(rec.rgs_code) \notin {"B", "W"} =>
         /\ rec.rgs_dc = << "D" >> =>
              rec.root_type = (IF startswith(rec.rgs_code, << "W" >>)
                               THEN "Expense" ELSE "Asset")
         /\ rec.rgs_dc = << "C" >> =>
              rec.root_type = (IF startswith(rec.rgs_code, << "W" >>)
                               THEN "Income" ELSE "Liability")
         /\ rec.rgs_dc \notin { << "D" >>, << "C" >> } =>
              rec.root_type = (IF startswith(rec.rgs_code, << "B" >>)
                               THEN "Asset" ELSE "Expense")
         /\ rec.root_type =
              (CASE rec.rgs_dc = << "D" >> -> "Asset"
                 [] rec.rgs_dc = << "C" >> -> "Liability"
                 [] OTHER -> "Expense")
    /\ LeadingChar(rec.rgs_code) = "B" /\ NoSignal(rec)
         /\ rec.rgs_dc \notin { << "D" >>, << "C" >> }
         => rec.root_type = "Asset"

\* C14 witness: a code in lower case that would be a W code in upper case,
\* with the indicator D and a description that holds a keyword of the
\* income catalogue, is an Asset.
C14_Witness ==
  \E rec \in Enriched :
    /\ rec.rgs_code = << "w", "O", "m", "z" >>
    /\ rec.rgs_omskort = << "S", "a", "l", "e", "s", " ", "r", "e", "v", "e", "n", "u", "e" >>
    /\ rec.rgs_dc = << "D" >>
    /\ rec.root_type = "Asset"

\* The input record an enriched record was made of, as far as the
\* classifiers read it.
RecordOf(rec) == Rec(rec.rgs_code, rec.rgs_omskort, rec.rgs_dc, rec.rgs_nivo)

\* C15: concepts that name no category of the section of the code (for a B
\* code concepts that hold income, revenue, expense or cost only, for a W
\* code liability, equity or asset only, for any other code all concepts)
\* leave the category the one computed with an empty list of concepts.
C15_HintsOfOtherSectionIgnored ==
  \A rec \in Enriched :
    /\ HintsOf(rec) # << >>
    /\ ~SomeHintNames(HintsOf(rec), SectionOf(rec.rgs_code), FALSE)
    => rec.root_type = determine_root_type(RecordOf(rec), << >>)

\* C15 witness: a W code whose pattern says Income, with concepts that name
\* Liability and Asset, stays Income.
C15_Witness ==
  \E rec \in Enriched :
    /\ rec.rgs_code = << "W", "O", "m", "z" >>
    /\ rec.rgs_dc = << "D" >>
    /\ HintsOf(rec) = << << "L", "i", "a", "b", "i", "l", "i", "t", "i", "e", "s" >>, << "A", "s", "s", "e", "t", "s" >> >>
    /\ rec.root_type = "Income"

\* The account types of each category.
AccountTypesOf(root_type) ==
  CASE root_type = "Asset" ->
         {"Bank", "Receivable", "Fixed Asset", "Stock", "Current Asset"}
    [] root_type = "Liability" -> {"Tax", "Payable", "Current Liability"}
    [] root_type = "Equity" -> {"Equity"}
    [] root_type = "Income" -> {"Income Account"}
    [] root_type = "Expense" -> {"Depreciation", "Tax", "Expense Account"}

\* Whether the description of an enriched record holds one of the keywords.
DescHolds(rec, keywords) == \E kw \in keywords : Contains(kw, DescOf(rec))

\* C16: account_type is never empty and is one of the account types of the
\* category of the record; for a Liability it is decided by the liability
\* keywords alone (Tax, then Payable, else Current Liability), for an
\* Expense by the expense keywords alone (Depreciation, then Tax, else
\* Expense Account), and the keywords of the asset lookup decide nothing
\* there.
C16_AccountTypeInCatalogue ==
  \A rec \in Enriched :
    /\ rec.account_type # ""
    /\ rec.account_type \in AccountTypesOf(rec.root_type)
    /\ rec.root_type = "Liability" =>
         rec.account_type =
           (IF DescHolds(rec, { << "b", "e", "l", "a", "s", "t", "i", "n", "g" >>, << "b", "t", "w" >>, << "l", "o", "o", "n", "h", "e", "f", "f", "i", "n", "g" >> })
            THEN "Tax"
            ELSE IF DescHolds(rec, { << "c", "r", "e", "d", "i", "t", "e", "u", "r" >>, << "l", "e", "v", "e", "r", "a", "n", "c", "i", "e", "r" >> })
            THEN "Payable"
            ELSE "Current Liability")
    /\ rec.root_type = "Expense" =>
         rec.account_type =
           (IF DescHolds(rec, { << "a", "f", "s", "c", "h", "r", "i", "j", "v", "i", "n", "g" >> }) THEN "Depreciation"
            ELSE IF DescHolds(rec, { << "b", "e", "l", "a", "s", "t", "i", "n", "g" >> }) THEN "Tax"
            ELSE "Expense Account")

\* C16 witness: a Liability whose description holds the bank keyword of the
\* asset lookup is a Current Liability.
C16_Witness ==
  \E rec \in Enriched :
    /\ rec.rgs_code = << "B", "K", "r", "e" >>
    /\ rec.rgs_omskort = << "B", "a", "n", "k", " ", "l", "o", "p", "e", "n", "d", "e", " ", "r", "e", "k", "e", "n", "i", "n", "g" >>
    /\ rec.root_type = "Liability"
    /\ rec.account_type = "Current Liability"

\* The rules of the asset lookup, each by its keywords.
BankRule(rec) == DescHolds(rec, { << "b", "a", "n", "k" >>, << "k", "a", "s" >>, << "g", "i", "r", "o" >>, << "l", "i", "q", "u", "i", "d", "e" >> })

ReceivableRule(rec) == DescHolds(rec, { << "v", "o", "r", "d", "e", "r", "i", "n", "g" >>, << "d", "e", "b", "i", "t", "e", "u", "r" >> })

FixedAssetRule(rec) ==
  \/ \E kw \in { << "I", "v", "a" >>, << "M", "v", "a" >> } : Contains(kw, rec.rgs_code)
  \/ DescHolds(rec, { << "v", "a", "s", "t" >>, << "m", "a", "c", "h", "i", "n", "e" >>, << "g", "e", "b", "o", "u", "w" >>, << "i", "n", "v", "e", "n", "t", "a", "r", "i", "s" >> })

StockRule(rec) == DescHolds(rec, { << "v", "o", "o", "r", "r", "a", "a", "d" >>, << "i", "n", "v", "e", "n", "t", "a", "r", "i", "s" >> })

\* C17: the account type of an Asset is that of the first rule that holds,
\* in the order Bank, Receivable, Fixed Asset, Stock, and Current Asset when
\* none holds.
C17_AssetTypePrecedence ==
  \A rec \in Enriched :
    rec.root_type = "Asset" =>
      /\ BankRule(rec) => rec.account_type = "Bank"
      /\ ~BankRule(rec) /\ ReceivableRule(rec)
           => rec.account_type = "Receivable"
      /\ ~BankRule(rec) /\ ~ReceivableRule(rec) /\ FixedAssetRule(rec)
           => rec.account_type = "Fixed Asset"
      /\ ~BankRule(rec) /\ ~ReceivableRule(rec) /\ ~FixedAssetRule(rec)
           /\ StockRule(rec) => rec.account_type = "Stock"
      /\ ~BankRule(rec) /\ ~ReceivableRule(rec) /\ ~FixedAssetRule(rec)
           /\ ~StockRule(rec) => rec.account_type = "Current Asset"

\* C17 witness: an Asset whose description holds a receivable keyword and,
\* after it, a bank keyword is a Bank account.
C17_Witness ==
  \E rec \in Enriched :
    /\ rec.rgs_omskort = << "D", "e", "b", "i", "t", "e", "u", "r", "e", "n", " ", "b", "a", "n", "k" >>
    /\ rec.root_type = "Asset"
    /\ BankRule(rec) /\ ReceivableRule(rec)
    /\ rec.account_type = "Bank"

\* An enriched record of the code, indicator and description, classified
\* with no concepts.
IsCase(rec, code, dc, desc) ==
  /\ rec.rgs_code = code
  /\ rec.rgs_dc = dc
  /\ rec.rgs_omskort = desc
  /\ HintsOf(rec) = << >>

\* The derived attributes of an enriched record.
Derived(rec) ==
  << rec.root_type, rec.account_type, rec.report_type, rec.balance_must_be >>

\* The concrete cases other than that of the trade creditors.
OtherConcreteCases ==
  \A rec \in Enriched :
    /\ IsCase(rec, << "B", "B", "a", "n" >>, << "D" >>, << "B", "a", "n", "k", " ", "c", "u", "r", "r", "e", "n", "t", " ", "a", "c", "c", "o", "u", "n", "t" >>) =>
         Derived(rec) = << "Asset", "Bank", "Balance Sheet", "Debit" >>
    /\ IsCase(rec, << "B", "E", "i", "g" >>, << "C" >>, << "O", "w", "n", "e", "r", "'", "s", " ", "e", "q", "u", "i", "t", "y" >>) =>
         Derived(rec) = << "Equity", "Equity", "Balance Sheet", "Credit" >>
    /\ IsCase(rec, << "W", "O", "m", "z" >>, << "C" >>, << "S", "a", "l", "e", "s", " ", "r", "e", "v", "e", "n", "u", "e" >>) =>
         Derived(rec) = << "Income", "Income Account", "Profit and Loss", "Credit" >>
    /\ IsCase(rec, << "W", "K", "o", "s" >>, << "D" >>, << "P", "u", "r", "c", "h", "a", "s", "e", " ", "c", "o", "s", "t", "s" >>) =>
         Derived(rec) = << "Expense", "Expense Account", "Profit and Loss", "Debit" >>

\* C18 as stated: the five concrete cases, that of BKre with the indicator C
\* and the description Trade creditors being a Payable.
C18_ConcreteCases ==
  /\ OtherConcreteCases
  /\ \A rec \in Enriched :
       IsCase(rec, << "B", "K", "r", "e" >>, << "C" >>, << "T", "r", "a", "d", "e", " ", "c", "r", "e", "d", "i", "t", "o", "r", "s" >>) =>
         Derived(rec) = << "Liability", "Payable", "Balance Sheet", "Credit" >>

\* C18 amended: BKre with the indicator C and the description Trade
\* creditors is a Current Liability, as the description holds no keyword of
\* the liability lookup; with the description Crediteuren of the mapper's
\* own test it is a Payable.  The other four cases are as stated.
C18_ConcreteCasesCurrentLiability ==
  /\ OtherConcreteCases
  /\ \A rec \in Enriched :
       /\ IsCase(rec, << "B", "K", "r", "e" >>, << "C" >>, << "T", "r", "a", "d", "e", " ", "c", "r", "e", "d", "i", "t", "o", "r", "s" >>) =>
            Derived(rec) =
              << "Liability", "Current Liability", "Balance Sheet", "Credit" >>
       /\ IsCase(rec, << "B", "K", "r", "e" >>, << "C" >>, << "C", "r", "e", "d", "i", "t", "e", "u", "r", "e", "n" >>) =>
            Derived(rec) = << "Liability", "Payable", "Balance Sheet", "Credit" >>

\* C18 witness: the case of the trade creditors has been classified.
C18_Witness ==
  \E rec \in Enriched :
    /\ IsCase(rec, << "B", "K", "r", "e" >>, << "C" >>, << "T", "r", "a", "d", "e", " ", "c", "r", "e", "d", "i", "t", "o", "r", "s" >>)
    /\ rec.account_type = "Current Liability"

\* concept_mappings cut down to the concepts of one code.
OwnHints(rgs_code) ==
  IF rgs_code \in DOMAIN concept_mappings
  THEN rgs_code :> concept_mappings[rgs_code]
  ELSE << >>

\* The result of a record processed on its own, with the concepts of its
\* own code only.
Alone(record) ==
  process_rgs_record_enhanced(record, OwnHints(Get(record.rgsCode, << >>)))

\* The results of the first n records, each processed on its own, merged in
\* input order; a record whose processing raises has no result.
RECURSIVE MergedAlone(_)
MergedAlone(n) ==
  IF n = 0 THEN << >>
  ELSE IF raises(Alone(canonical_data[n])) THEN MergedAlone(n - 1)
  ELSE Append(MergedAlone(n - 1), Alone(canonical_data[n]))

\* The number of records process_all_rgs_data has been through.
Handled == Min(i + k, Len(canonical_data))

\* C20: at every point of the run the output is the merge, in input order,
\* of the results of the records handled so far, each processed on its own
\* with the concepts of its own code: no result depends on the other
\* records of the batch, on their concepts or on their position.
C20_RecordIndependence == processed_records = MergedAlone(Handled)

\* C20 witness: a run over three records has ended; the second has
\* concepts, the first has none and is classified by its pattern, the
\* third raised and left the other results as they were.
C20_Witness ==
  /\ ProcessDone
  /\ Len(canonical_data) = 3
  /\ canonical_data[1].rgsCode = << "B", "I", "v", "a", "K", "o", "u" >>
  /\ canonical_data[2].rgsCode = << "B", "I", "v", "a" >>
  /\ canonical_data[3].rgsCode = None
  /\ concept_mappings # << >>
  /\ Len(processed_records) = 2
  /\ processed_records[1].root_type = "Asset"
  /\ processed_records[2].root_type = "Liability"

---------------------------------------------------------------------------
(* C22: the report section of the build-time mapping *)

\* C22: every fixture built by process_rgs_batch_for_build has report type
\* 'Balance Sheet' if and only if its code's leading character is 'B',
\* 'Profit and Loss' if and only if it is 'W', and no report section for
\* any other leading character.
C22_BuildReportTypeByLeadingChar ==
  \A n \in 1..Len(processed) :
    LET f == processed[n]
    IN  /\ f.erpnext_report_type = "Balance Sheet" <=> startswith(f.rgs_code, << "B" >>)
        /\ f.erpnext_report_type = "Profit and Loss" <=> startswith(f.rgs_code, << "W" >>)
        /\ (~startswith(f.rgs_code, << "B" >>) /\ ~startswith(f.rgs_code, << "W" >>))
             => f.erpnext_report_type = ""

---------------------------------------------------------------------------
(* C28: one hierarchy rule in four implementations *)

\* C28: on every code str of a walk (the empty str, one-character codes, B
\* and W among them) the parent found by the processing script is the one
\* the build-time utility, the RGS Classification document and the RGS
\* Template return.
C28_SameParentInFourImplementations ==
  [][ /\ cur' = build_find_parent_rgs_code(cur)
      /\ cur' = get_parent_code(cur)
      /\ cur' = get_parent_rgs_code(cur) ]_vars

\* C28 witness: the walk from WOmzNet went through WOmz and W and found that
\* W has no parent.
C28_Witness ==
  code0 = << "W", "O", "m", "z", "N", "e", "t" >> /\ steps = 3 /\ cur = None

---------------------------------------------------------------------------
(* process_all_rgs_data from its start: the two loaders, the loop, the
   output file *)

\* Longest record collection on disk.
MaxLoad == 2

\* A file on disk: absent, found and not readable, or found with a content.
File(state, content) == [state |-> state, content |-> content]

NoFile == { File("absent", << >>), File("unreadable", << >>) }

\* What a loader gives: the value it returns, or the exception it raises.
Returned(value) == [raised |-> FALSE, value |-> value]

Raised == [raised |-> TRUE, value |-> << >>]

\* load_rgs_canonical_data: the parsed file; None when no path exists, which
\* `not canonical_data` reads as it reads the empty list, and which is the
\* empty list here.  The call raises when the file is found and cannot be
\* read.
load_rgs_canonical_data(file) ==
  IF file.state = "absent" THEN Returned(<< >>)
  ELSE IF file.state = "unreadable" THEN Raised
  ELSE Returned(file.content)

\* load_concept_mappings: the rows of labels.csv with a code and a concept,
\* by code; rows[1..n] read.
RECURSIVE concept_map(_, _)
concept_map(rows, n) ==
  IF n = 0 THEN << >>
  ELSE LET m == concept_map(rows, n - 1)
           rgs_code == strip(rows[n][1])
           concept == strip(rows[n][2])
       IN  IF rgs_code # << >> /\ concept # << >>
           THEN IF rgs_code \in DOMAIN m
                THEN [m EXCEPT ![rgs_code] = Append(@, concept)]
                ELSE m @@ (rgs_code :> << concept >>)
           ELSE m

\* A plausible slip: a missing labels.csv treated as an unreadable one.
load_concept_mappings_required(file) ==
  IF file.state \in {"absent", "unreadable"} THEN Raised
  ELSE Returned(concept_map(file.content, Len(file.content)))

\* load_concept_mappings: an empty dict, after a warning, when labels.csv
\* does not exist.  The call raises when the file is found and cannot be
\* read.
load_concept_mappings(file) ==
  IF file.state = "absent" THEN Returned(<< >>)
  ELSE IF file.state = "unreadable" THEN Raised
  ELSE Returned(concept_map(file.content, Len(file.content)))

\* Record collections on disk.
RecordFiles ==
  { File("found", d) : d \in UNION { [1..n -> BatchRecords] : n \in 0..MaxLoad } }

\* Contents of labels.csv: rows of (RGS code, Concept).
LabelFiles ==
  { File("found", rows) : rows \in
      { << >>,
        << << << "B", "I", "v", "a" >>, << "L", "i", "a", "b", "i", "l", "i", "t", "i", "e", "s" >> >> >>,
        << << << " ", "B", "I", "v", "a", " " >>, << "A", "s", "s", "e", "t", "s" >> >>, << << "B", "I", "v", "a" >>, << "E", "q", "u", "i", "t", "y" >> >>,
           << << >>, << "R", "e", "v", "e", "n", "u", "e" >> >>, << << "W", "O", "m", "z" >>, << " " >> >> >> } }

InitSources ==
  /\ sources \in [rgs : NoFile \cup RecordFiles,
                  labels : NoFile \cup LabelFiles]
  /\ result = "running"
  /\ output_file = File("absent", << >>)
  /\ canonical_data = << >>
  /\ concept_mappings = << >>
  /\ i = 0
  /\ k = 0
  /\ processed_records = << >>
  /\ error_log = << >>
  /\ b = 0
  /\ processed = << >>
  /\ code0 = << >>
  /\ cur = None
  /\ steps = 0
  /\ NoImport
  /\ NoAccounts
  /\ NoLoader

\* process_all_rgs_data up to its loop: load_rgs_canonical_data,
\* `if not canonical_data: return False`, load_concept_mappings.
LoadSources ==
  /\ result = "running"
  /\ canonical_data = << >>
  /\ LET data == load_rgs_canonical_data(sources.rgs)
         mappings == load_concept_mappings(sources.labels)
     IN  IF data.raised
         THEN /\ result' = "raised"
              /\ UNCHANGED << canonical_data, concept_mappings >>
         ELSE IF data.value = << >>
         THEN /\ result' = "False"
              /\ UNCHANGED << canonical_data, concept_mappings >>
         ELSE IF mappings.raised
         THEN /\ result' = "raised"
              /\ UNCHANGED << canonical_data, concept_mappings >>
         ELSE /\ canonical_data' = data.value
              /\ concept_mappings' = mappings.value
              /\ UNCHANGED result
  /\ UNCHANGED << i, k, processed_records, error_log, b, processed, code0,
                  cur, steps, sources, output_file >>
  /\ UNCHANGED outside_load

\* process_all_rgs_data after its loop: json.dump(processed_records) and
\* `return True`.
SaveOutput ==
  /\ result = "running"
  /\ canonical_data # << >>
  /\ i >= Len(canonical_data)
  /\ output_file' = File("found", processed_records)
  /\ result' = "True"
  /\ UNCHANGED << pipeline_vars, sources >>
  /\ UNCHANGED outside_load

NextSources == LoadSources \/ ProcessRecord \/ NextBatch \/ SaveOutput

SpecSources == InitSources /\ [][NextSources]_vars

\* The record collection, or the hint table, cannot be located or loaded.
RecordsMissing == sources.rgs.state \in {"absent", "unreadable"}

LabelsMissing == sources.labels.state \in {"absent", "unreadable"}

\* process_all_rgs_data has got past its loaders.
SourcesRead == result # "running" \/ canonical_data # << >>

\* The batch is aborted and the failure surfaced: the function has returned
\* False or raised, no record is processed and no output is written.
Aborted ==
  /\ result \in {"False", "raised"}
  /\ processed_records = << >>
  /\ error_log = << >>
  /\ output_file.state = "absent"

\* C21 as stated: once the sources are read, a record collection or a hint
\* table that cannot be located or loaded has aborted the batch.
C21_MissingSourceAborts ==
  SourcesRead /\ (RecordsMissing \/ LabelsMissing) => Aborted

\* C21 amended: a record collection that cannot be located or loaded, and a
\* hint table that is located and cannot be loaded, abort the batch; a hint
\* table that cannot be located leaves the batch running with no hints, and
\* the run that ends returns True with every record handled and the output
\* written.
C21_MissingRecordsAbort ==
  /\ SourcesRead /\ RecordsMissing => Aborted
  /\ SourcesRead /\ sources.rgs.content # << >>
        /\ sources.labels.state = "unreadable" => Aborted
  /\ SourcesRead /\ sources.rgs.content # << >>
        /\ sources.labels.state = "absent" =>
       /\ result \in {"running", "True"}
       /\ canonical_data = sources.rgs.content
       /\ concept_mappings = << >>
       /\ result = "True" =>
            /\ output_file = File("found", processed_records)
            /\ Len(processed_records) + Len(error_log) = Len(sources.rgs.content)

\* C21 witness: a run without labels.csv has processed two records and
\* written them.
C21_Witness ==
  /\ sources.labels.state = "absent"
  /\ result = "True"
  /\ Len(output_file.content) = 2

---------------------------------------------------------------------------
(* The import of the RGS Classification documents:
   create_rgs_classifications and the migration execute *)

\* Longest fixture list on disk.
MaxFixture == 3

\* `created_count % 100 == 0`: a commit after every hundredth document.
commit_every == 100

\* A record of the fixture: the fields the import reads.
FixtureRecord(code, nivo, parent) ==
  [rgs_code |-> code, rgs_nivo |-> nivo, parent_rgs_classification |-> parent]

\* Records of the levels 1, 2 and 5, one with its level as a str, one with
\* no level, one with no code and one with a level that is no number.
FixtureRecords ==
  { FixtureRecord(<< "B" >>, NivoInt(1), None),
    FixtureRecord(<< "B", "I", "v", "a" >>, NivoStr(<< "2" >>), << "B" >>),
    FixtureRecord(<< "B", "I", "v", "a", "K", "o", "u", "O", "n", "d", "A", "a", "n" >>, NivoInt(5), << "B", "I", "v", "a", "K", "o", "u", "O", "n", "d" >>),
    FixtureRecord(<< "W" >>, NivoMissing, Missing),
    FixtureRecord(Missing, NivoInt(4), << "W" >>),
    FixtureRecord(<< "W", "O", "m", "z" >>, NivoStr(<< "a", "b", "c" >>), << "W" >>) }

\* The fixture file: absent, not readable, or a list of records.
FixtureFiles ==
  NoFile \cup
  { File("found", d) : d \in UNION { [1..m -> FixtureRecords] : m \in 0..MaxFixture } }

\* int(x.get('rgs_nivo', 1)): the level, or a ValueError or TypeError.
level_of(record) ==
  LET rgs_nivo == GetNivo(record.rgs_nivo, NivoInt(1))
  IN  IF rgs_nivo.t = "int" THEN [ok |-> TRUE, v |-> rgs_nivo.n]
      ELSE IF rgs_nivo.t = "str" THEN str_to_int(rgs_nivo.s)
      ELSE [ok |-> FALSE, v |-> 0]

\* The place sorted() gives x in a sorted list: before the first record of
\* the same or a higher level (x stood before them all).
RECURSIVE insert_by_level(_, _)
insert_by_level(x, s) ==
  IF s = << >> THEN << x >>
  ELSE IF level_of(Head(s)).v >= level_of(x).v THEN << x >> \o s
  ELSE << Head(s) >> \o insert_by_level(x, Tail(s))

\* sorted(rgs_data, key=lambda x: int(x.get('rgs_nivo', 1))), a stable sort.
RECURSIVE sorted_by_level(_)
sorted_by_level(rgs_data) ==
  IF rgs_data = << >> THEN << >>
  ELSE insert_by_level(Head(rgs_data), sorted_by_level(Tail(rgs_data)))

\* The sort raises: some level is no number.
sort_raises(rgs_data) ==
  \E m \in 1..Len(rgs_data) : ~level_of(rgs_data[m]).ok

\* A plausible slip: the levels taken from the deepest one.
levels_descending == << 4, 3, 2, 1 >>

\* range(1, 5)
levels == << 1, 2, 3, 4 >>

\* [r for r in rgs_data_sorted if int(r.get('rgs_nivo', 1)) == level]
level_records(lv) ==
  SelectSeq(rgs_data_sorted, LAMBDA r : level_of(r).v = lv)

\* The document doc.insert() stores.
doc_of(record) ==
  [rgs_code |-> record.rgs_code,
   rgs_nivo |-> level_of(record).v,
   parent_rgs_classification |-> Get(record.parent_rgs_classification, None)]

\* A document that is there before the call.
ExistingDoc == doc_of(FixtureRecord(<< "B" >>, NivoInt(1), None))

InitImport ==
  /\ fn \in {"create_rgs_classifications", "execute"}
  /\ pc = "start"
  /\ fixture_file \in FixtureFiles
  /\ rgs_data_sorted = << >>
  /\ level = 0
  /\ pos = 0
  /\ docs \in { << >>, << ExistingDoc >> }
  /\ committed = Len(docs)
  /\ ignore_update_nsm \in BOOLEAN
  /\ rebuild_tree_calls = 0
  /\ created_count = 0
  /\ errors = << >>
  /\ returned = "running"
  /\ canonical_data = << >>
  /\ concept_mappings = << >>
  /\ i = 0
  /\ k = 0
  /\ processed_records = << >>
  /\ error_log = << >>
  /\ b = 0
  /\ processed = << >>
  /\ code0 = << >>
  /\ cur = None
  /\ steps = 0
  /\ NoLoad
  /\ NoAccounts
  /\ NoLoader

\* A plausible slip: the test for existing documents inside the try block,
\* so that the finally block runs on the early return.
ExecuteSkip_inside_try ==
  /\ pc = "start"
  /\ fn = "execute"
  /\ Len(docs) > 0
  /\ pc' = "done"
  /\ returned' = "None"
  /\ ignore_update_nsm' = FALSE
  /\ UNCHANGED << fn, fixture_file, rgs_data_sorted, level, pos, docs,
                  committed, rebuild_tree_calls, created_count, errors >>
  /\ UNCHANGED outside_import

\* execute: `if existing_count > 0: return`.
ExecuteSkip ==
  /\ pc = "start"
  /\ fn = "execute"
  /\ Len(docs) > 0
  /\ pc' = "done"
  /\ returned' = "None"
  /\ UNCHANGED << fn, fixture_file, rgs_data_sorted, level, pos, docs,
                  committed, ignore_update_nsm, rebuild_tree_calls,
                  created_count, errors >>
  /\ UNCHANGED outside_import

\* The fixture file is not found, is not readable or holds no record:
\* create_rgs_classifications returns False, execute returns.
LoadFails ==
  /\ pc = "start"
  /\ fn = "execute" => Len(docs) = 0
  /\ fixture_file.state # "found" \/ fixture_file.content = << >>
  /\ pc' = "done"
  /\ returned' = IF fn = "execute" THEN "None" ELSE "False"
  /\ UNCHANGED << fn, fixture_file, rgs_data_sorted, level, pos, docs,
                  committed, ignore_update_nsm, rebuild_tree_calls,
                  created_count, errors >>
  /\ UNCHANGED outside_import

\* The fixture is loaded; create_rgs_classifications deletes the documents
\* that are there and commits; `ignore_update_nsm = True`.
BeginImport ==
  /\ pc = "start"
  /\ fn = "execute" => Len(docs) = 0
  /\ fixture_file.state = "found" /\ fixture_file.content # << >>
  /\ docs' = << >>
  /\ committed' = 0
  /\ ignore_update_nsm' = TRUE
  /\ pc' = "sort"
  /\ UNCHANGED << fn, fixture_file, rgs_data_sorted, level, pos,
                  rebuild_tree_calls, created_count, errors, returned >>
  /\ UNCHANGED outside_import

\* The first statements of the try block: sorted(), created_count = 0,
\* errors = [], and the first level of the loop.
SortByLevel ==
  /\ pc = "sort"
  /\ IF sort_raises(fixture_file.content)
     THEN /\ pc' = "critical"
          /\ UNCHANGED << rgs_data_sorted, level >>
     ELSE /\ rgs_data_sorted' = sorted_by_level(fixture_file.content)
          /\ level' = 1
          /\ pc' = "create"
  /\ pos' = 0
  /\ created_count' = 0
  /\ errors' = << >>
  /\ UNCHANGED << fn, fixture_file, docs, committed, ignore_update_nsm,
                  rebuild_tree_calls, returned >>
  /\ UNCHANGED outside_import

\* One turn of `for record in level_records`: the document is inserted, or
\* the KeyError of a record with no rgs_code, or the exception of
\* doc.insert(), is added to errors.
InsertRecord ==
  /\ pc = "create"
  /\ level <= Len(levels)
  /\ pos < Len(level_records(levels[level]))
  /\ LET record == level_records(levels[level])[pos + 1]
     IN  \E inserted \in BOOLEAN :
           IF record.rgs_code # Missing /\ inserted
           THEN /\ docs' = Append(docs, doc_of(record))
                /\ created_count' = created_count + 1
                /\ committed' = IF (created_count + 1) % commit_every = 0
                                THEN Len(docs) + 1 ELSE committed
                /\ UNCHANGED errors
           ELSE /\ errors' = Append(errors, Get(record.rgs_code, << "U", "N", "K", "N", "O", "W", "N" >>))
                /\ UNCHANGED << docs, created_count, committed >>
  /\ pos' = pos + 1
  /\ UNCHANGED << fn, pc, fixture_file, rgs_data_sorted, level,
                  ignore_update_nsm, rebuild_tree_calls, returned >>
  /\ UNCHANGED outside_import

\* The end of a turn of `for level in range(1, 5)`.
NextLevel ==
  /\ pc = "create"
  /\ level <= Len(levels)
  /\ pos = Len(level_records(levels[level]))
  /\ level' = level + 1
  /\ pos' = 0
  /\ UNCHANGED << fn, pc, fixture_file, rgs_data_sorted, docs, committed,
                  ignore_update_nsm, rebuild_tree_calls, created_count,
                  errors, returned >>
  /\ UNCHANGED outside_import

\* After the loops: commit, rebuild_tree, commit, each of which may raise.
CommitAndRebuild ==
  /\ pc = "create"
  /\ level > Len(levels)
  /\ \E raising \in {"nothing", "commit", "rebuild_tree", "last commit"} :
       /\ committed' = IF raising = "commit" THEN committed ELSE Len(docs)
       /\ rebuild_tree_calls' = IF raising = "commit" THEN rebuild_tree_calls
                                ELSE rebuild_tree_calls + 1
       /\ IF raising = "nothing"
          THEN /\ pc' = "finally"
               /\ returned' = IF fn = "execute" THEN "None" ELSE "True"
          ELSE /\ pc' = "critical"
               /\ UNCHANGED returned
  /\ UNCHANGED << fn, fixture_file, rgs_data_sorted, level, pos, docs,
                  ignore_update_nsm, created_count, errors >>
  /\ UNCHANGED outside_import

\* `except Exception`: rollback; create_rgs_classifications returns False,
\* execute raises again.
CriticalError ==
  /\ pc = "critical"
  /\ docs' = SubSeq(docs, 1, committed)
  /\ returned' = IF fn = "execute" THEN "raised" ELSE "False"
  /\ pc' = "finally"
  /\ UNCHANGED << fn, fixture_file, rgs_data_sorted, level, pos, committed,
                  ignore_update_nsm, rebuild_tree_calls, created_count,
                  errors >>
  /\ UNCHANGED outside_import

\* A plausible slip: the flag reset at the end of the try block only, so
\* not after a critical error.
Finally_after_success_only ==
  /\ pc = "finally"
  /\ ignore_update_nsm' = (returned \notin {"True", "None"})
  /\ pc' = "done"
  /\ UNCHANGED << fn, fixture_file, rgs_data_sorted, level, pos, docs,
                  committed, rebuild_tree_calls, created_count, errors,
                  returned >>
  /\ UNCHANGED outside_import

\* `finally: ignore_update_nsm = False`, and the call is over.
Finally ==
  /\ pc = "finally"
  /\ ignore_update_nsm' = FALSE
  /\ pc' = "done"
  /\ UNCHANGED << fn, fixture_file, rgs_data_sorted, level, pos, docs,
                  committed, rebuild_tree_calls, created_count, errors,
                  returned >>
  /\ UNCHANGED outside_import

NextImport ==
  \/ ExecuteSkip
  \/ LoadFails
  \/ BeginImport
  \/ SortByLevel
  \/ InsertRecord
  \/ NextLevel
  \/ CommitAndRebuild
  \/ CriticalError
  \/ Finally

SpecImport == InitImport /\ [][NextImport]_vars

---------------------------------------------------------------------------
(* C23: the protocol of the import *)

\* The call has entered its creation loop.
ReachedCreation == level >= 1

\* A step that inserts a document.
Inserts == Len(docs') > Len(docs)

\* C23 as stated: in every execution that reaches document creation, tree
\* validation is disabled at every insert, no insert follows rebuild_tree,
\* and at the end of the call rebuild_tree has been called once and
\* ignore_update_nsm is False.
C23_ImportProtocol ==
  [][ /\ Inserts => ignore_update_nsm /\ ignore_update_nsm'
                      /\ rebuild_tree_calls = 0
      /\ pc' = "done" /\ ReachedCreation' =>
            /\ rebuild_tree_calls' = 1
            /\ ~ignore_update_nsm' ]_vars

\* C23 amended: in every execution that reaches document creation, tree
\* validation is disabled at every insert, no insert follows rebuild_tree,
\* rebuild_tree is called at most once, and once when the call ends without
\* a critical error, and ignore_update_nsm is False at the end of the call,
\* also after a critical error with rollback.
C23_ImportProtocolOnCompletion ==
  [][ /\ Inserts => ignore_update_nsm /\ ignore_update_nsm'
                      /\ rebuild_tree_calls = 0
      /\ rebuild_tree_calls' <= 1
      /\ pc' = "done" /\ ReachedCreation' =>
            /\ returned' \in {"True", "None"} => rebuild_tree_calls' = 1
            /\ ~ignore_update_nsm' ]_vars

\* C23 witness: execute inserted two documents, the commit after the loop
\* raised, and the call is over.
C23_Witness ==
  /\ fn = "execute"
  /\ pc = "done"
  /\ returned = "raised"
  /\ created_count = 2
  /\ rebuild_tree_calls = 0

---------------------------------------------------------------------------
(* C24: every record is inserted or reported *)

\* The call is over and met no critical error.
Completed ==
  pc = "done" /\ rebuild_tree_calls = 1 /\ returned \in {"True", "None"}

\* C24: when the import completes without a critical error, every record
\* of the loaded fixture is inserted or recorded in errors: created_count
\* plus the number of errors is the number of loaded records.
C24_EveryRecordCreatedOrReported ==
  Completed => created_count + Len(errors) = Len(fixture_file.content)

---------------------------------------------------------------------------
(* C25: parents are created first *)

\* C25: the documents of an import are inserted in non-decreasing level
\* order, a record with no rgs_nivo at level 1, so a parent of a strictly
\* smaller level is inserted before its child.
C25_ParentsCreatedFirst ==
  ReachedCreation =>
    /\ \A x, y \in 1..Len(docs) :
         x < y => docs[x].rgs_nivo <= docs[y].rgs_nivo
    /\ \A x, y \in 1..Len(docs) :
         /\ docs[x].rgs_code = docs[y].parent_rgs_classification
         /\ docs[x].rgs_nivo < docs[y].rgs_nivo
         => x < y

\* C25 witness: the file holds BIva before its parent B and W, which has no
\* level; B and W are inserted before BIva.
C25_Witness ==
  /\ Len(fixture_file.content) = 3
  /\ fixture_file.content[1].rgs_code = << "B", "I", "v", "a" >>
  /\ fixture_file.content[3].rgs_nivo = NivoMissing
  /\ Len(docs) = 3
  /\ docs[1].rgs_code = << "B" >>
  /\ docs[2].rgs_code = << "W" >>
  /\ docs[3].rgs_code = << "B", "I", "v", "a" >>

---------------------------------------------------------------------------
(* C27: the migration skips the import when data is present *)

\* C27: execute called when at least one RGS Classification exists ends at
\* once: it inserts and deletes no document, does not change
\* ignore_update_nsm and does not call rebuild_tree.
C27_ExecuteSkipsWhenDataPresent ==
  [][ fn = "execute" /\ pc = "start" /\ Len(docs) > 0 =>
        /\ pc' = "done"
        /\ docs' = docs
        /\ committed' = committed
        /\ ignore_update_nsm' = ignore_update_nsm
        /\ rebuild_tree_calls' = rebuild_tree_calls ]_vars

\* C27 witness: execute has returned on a site with one document where
\* tree validation was disabled before the call; both are as they were.
C27_Witness ==
  /\ fn = "execute"
  /\ pc = "done"
  /\ returned = "None"
  /\ docs = << ExistingDoc >>
  /\ ignore_update_nsm
  /\ rebuild_tree_calls = 0

---------------------------------------------------------------------------
(* The accounts of a company: RGSTemplate.generate_chart_of_accounts,
   RGSTemplate.create_account_from_rgs, RGSClassification.create_account *)

\* Longest list of applicable classifications.
MaxApplicable == 3

\* Most calls of the two account-creating methods in a row.
MaxCalls == 3

Companies == { "Alfa BV", "Beta BV" }

\* An RGS Classification as the query returns it and as create_account
\* reads it: the fields the two methods use.
Classification(code, nivo, parent) ==
  [rgs_code |-> code, rgs_nivo |-> nivo, parent_rgs_classification |-> parent]

Classifications ==
  { Classification(<< "B" >>, 1, None),
    Classification(<< "B", "I", "v", "a" >>, 2, << "B" >>),
    Classification(<< "B", "I", "v", "a", "K", "o", "u" >>, 3, << "B", "I", "v", "a" >>) }

\* frappe.db.get_value("Account", {"rgs_code": ..., "company": ...}): the
\* first account of the code and the company, 0 for None.
account_of(rgs_code, comp) ==
  LET found == { m \in 1..Len(accounts) :
                   accounts[m].rgs_code = rgs_code /\ accounts[m].company = comp }
  IN  IF found = { } THEN 0
      ELSE CHOOSE m \in found : \A o \in found : m <= o

\* RGSTemplate.find_parent_account
find_parent_account(rgs_data, comp) ==
  IF rgs_data.rgs_nivo <= 1 THEN 0
  ELSE LET parent_rgs_code == get_parent_rgs_code(rgs_data.rgs_code)
       IN  IF parent_rgs_code # None THEN account_of(parent_rgs_code, comp)
           ELSE 0

\* The Account a method inserts.  parent_account 0 is the root account
\* get_root_account finds (create_account_from_rgs) or no parent
\* (create_account).
Account(rgs_data, comp, parent_account) ==
  [rgs_code |-> rgs_data.rgs_code,
   company |-> comp,
   rgs_nivo |-> rgs_data.rgs_nivo,
   parent_account |-> parent_account]

\* What a call gave: the accounts after it, and the account it returned or
\* 0 when it raised.
Gave(after, account) == [accounts |-> after, account |-> account]

\* A plausible slip: no test for an account that exists.
create_account_from_rgs_unchecked(rgs_data, comp, inserted) ==
  IF inserted
  THEN Gave(Append(accounts,
                   Account(rgs_data, comp, find_parent_account(rgs_data, comp))),
            Len(accounts) + 1)
  ELSE Gave(accounts, 0)

\* RGSTemplate.create_account_from_rgs; account.insert() succeeds
\* (inserted) or raises.
create_account_from_rgs(rgs_data, comp, inserted) ==
  LET existing == account_of(rgs_data.rgs_code, comp)
  IN  IF existing # 0 THEN Gave(accounts, existing)
      ELSE IF inserted
      THEN Gave(Append(accounts,
                       Account(rgs_data, comp, find_parent_account(rgs_data, comp))),
                Len(accounts) + 1)
      ELSE Gave(accounts, 0)

\* RGSClassification.create_account, self the classification;
\* account.insert() succeeds (inserted) or raises.
create_account(self, comp, inserted) ==
  IF account_of(self.rgs_code, comp) # 0 THEN Gave(accounts, 0)
  ELSE IF inserted
  THEN Gave(Append(accounts,
                   Account(self, comp,
                           IF self.parent_rgs_classification # None
                           THEN account_of(self.parent_rgs_classification, comp)
                           ELSE 0)),
            Len(accounts) + 1)
  ELSE Gave(accounts, 0)

\* x.get('nivo', 1)
nivo_key(x) == IF "nivo" \in DOMAIN x THEN x.nivo ELSE 1

\* The place sorted() gives x in a sorted list.
RECURSIVE insert_by_nivo(_, _)
insert_by_nivo(x, s) ==
  IF s = << >> THEN << x >>
  ELSE IF nivo_key(Head(s)) >= nivo_key(x) THEN << x >> \o s
  ELSE << Head(s) >> \o insert_by_nivo(x, Tail(s))

\* sorted(applicable_codes, key=lambda x: x.get('nivo', 1))
RECURSIVE sorted_by_nivo(_)
sorted_by_nivo(codes) ==
  IF codes = << >> THEN << >>
  ELSE insert_by_nivo(Head(codes), sorted_by_nivo(Tail(codes)))

sorted_codes == sorted_by_nivo(applicable_codes)

\* generate_chart_of_accounts is called: the query has returned the
\* applicable classifications in some order.
InitChart ==
  /\ accounts = << >>
  /\ applicable_codes \in UNION { [1..m -> Classifications] : m \in 0..MaxApplicable }
  /\ company \in Companies
  /\ g = 0
  /\ created_accounts = << >>
  /\ chart_errors = << >>
  /\ calls = 0
  /\ last_call = << >>
  /\ canonical_data = << >>
  /\ concept_mappings = << >>
  /\ i = 0
  /\ k = 0
  /\ processed_records = << >>
  /\ error_log = << >>
  /\ b = 0
  /\ processed = << >>
  /\ code0 = << >>
  /\ cur = None
  /\ steps = 0
  /\ NoLoad
  /\ NoImport
  /\ NoLoader

\* generate_chart_of_accounts: one turn of `for rgs_data in sorted_codes`.
GenerateTurn ==
  /\ g < Len(sorted_codes)
  /\ LET rgs_data == sorted_codes[g + 1]
     IN  \E inserted \in BOOLEAN :
           LET gave == create_account_from_rgs(rgs_data, company, inserted)
           IN  /\ accounts' = gave.accounts
               /\ IF gave.account # 0
                  THEN /\ created_accounts' = Append(created_accounts, gave.account)
                       /\ UNCHANGED chart_errors
                  ELSE /\ chart_errors' = Append(chart_errors, rgs_data.rgs_code)
                       /\ UNCHANGED created_accounts
  /\ g' = g + 1
  /\ UNCHANGED << applicable_codes, company, calls, last_call >>
  /\ UNCHANGED outside_accounts

NextChart == GenerateTurn

SpecChart == InitChart /\ [][NextChart]_vars

\* Calls of the two methods, one after another, on a site with no account.
InitAccounts ==
  /\ accounts = << >>
  /\ applicable_codes = << >>
  /\ company = ""
  /\ g = 0
  /\ created_accounts = << >>
  /\ chart_errors = << >>
  /\ calls = 0
  /\ last_call = << >>
  /\ canonical_data = << >>
  /\ concept_mappings = << >>
  /\ i = 0
  /\ k = 0
  /\ processed_records = << >>
  /\ error_log = << >>
  /\ b = 0
  /\ processed = << >>
  /\ code0 = << >>
  /\ cur = None
  /\ steps = 0
  /\ NoLoad
  /\ NoImport
  /\ NoLoader

\* A call of RGSTemplate.create_account_from_rgs.
CallCreateAccountFromRgs ==
  /\ calls < MaxCalls
  /\ \E rgs_data \in Classifications, comp \in Companies, inserted \in BOOLEAN :
       LET gave == create_account_from_rgs(rgs_data, comp, inserted)
       IN  /\ accounts' = gave.accounts
           /\ last_call' = [method |-> "create_account_from_rgs",
                            rgs_code |-> rgs_data.rgs_code,
                            company |-> comp,
                            account |-> gave.account]
  /\ calls' = calls + 1
  /\ UNCHANGED << applicable_codes, company, g, created_accounts, chart_errors >>
  /\ UNCHANGED outside_accounts

\* A call of RGSClassification.create_account.
CallCreateAccount ==
  /\ calls < MaxCalls
  /\ \E self \in Classifications, comp \in Companies, inserted \in BOOLEAN :
       LET gave == create_account(self, comp, inserted)
       IN  /\ accounts' = gave.accounts
           /\ last_call' = [method |-> "create_account",
                            rgs_code |-> self.rgs_code,
                            company |-> comp,
                            account |-> gave.account]
  /\ calls' = calls + 1
  /\ UNCHANGED << applicable_codes, company, g, created_accounts, chart_errors >>
  /\ UNCHANGED outside_accounts

NextAccounts == CallCreateAccountFromRgs \/ CallCreateAccount

SpecAccounts == InitAccounts /\ [][NextAccounts]_vars

---------------------------------------------------------------------------
(* C26: the chart is created parents first *)

\* The code is that of an applicable classification.
Applicable(rgs_code) ==
  \E m \in 1..Len(applicable_codes) : applicable_codes[m].rgs_code = rgs_code

\* The creation of the account of the code has failed.
Failed(rgs_code) ==
  \E m \in 1..Len(chart_errors) : chart_errors[m] = rgs_code

\* C26: generate_chart_of_accounts creates the accounts in non-decreasing
\* rgs_nivo order, so that the account of a record whose parent code is
\* applicable (and whose parent's creation has not failed) is linked to the
\* account of its parent code as parent_account.
C26_ChartCreatedParentsFirst ==
  /\ \A x, y \in 1..Len(accounts) :
       x < y => accounts[x].rgs_nivo <= accounts[y].rgs_nivo
  /\ \A y \in 1..Len(accounts) :
       LET parent == get_parent_rgs_code(accounts[y].rgs_code)
       IN  Applicable(parent) /\ ~Failed(parent) =>
             /\ accounts[y].parent_account # 0
             /\ accounts[accounts[y].parent_account].rgs_code = parent

---------------------------------------------------------------------------
(* C29: one Account for a code and a company *)

\* No two accounts have the same code and the same company.
AtMostOneAccount ==
  \A x, y \in 1..Len(accounts) :
    accounts[x].rgs_code = accounts[y].rgs_code
      /\ accounts[x].company = accounts[y].company
    => x = y

\* C29: after every call of create_account_from_rgs or create_account at
\* most one Account exists for each code and company; a call for a code and
\* a company that have an account inserts nothing, create_account_from_rgs
\* returns that account and create_account raises.
C29_OneAccountPerCodeAndCompany ==
  [][ calls' = calls + 1 =>
        /\ AtMostOneAccount'
        /\ account_of(last_call'.rgs_code, last_call'.company) # 0 =>
             /\ accounts' = accounts
             /\ last_call'.method = "create_account_from_rgs" =>
                  last_call'.account
                    = account_of(last_call'.rgs_code, last_call'.company)
             /\ last_call'.method = "create_account" =>
                  last_call'.account = 0 ]_vars

\* C29 witness: three calls were made, the account of BIva exists once, and
\* the last call, create_account for BIva and the same company, raised.
C29_Witness ==
  /\ calls = 3
  /\ Len(accounts) = 1
  /\ accounts[1].rgs_code = << "B", "I", "v", "a" >>
  /\ last_call.method = "create_account"
  /\ last_call.rgs_code = << "B", "I", "v", "a" >>
  /\ last_call.company = accounts[1].company
  /\ last_call.account = 0

---------------------------------------------------------------------------
(* build_utils.load_optimized_rgs_fixtures *)

\* Longest list of optimized fixtures on disk.
MaxOptimized == 3

\* Most runs of load_optimized_rgs_fixtures in a row.
MaxRuns == 2

\* load_optimized_rgs_fixtures: batch_size
fixture_batch_size == 100

\* A fixture: a document with its name, as process_rgs_batch_for_build
\* writes it (the name is the rgs code), or with no name.
Fixture(name) == [name |-> name]

\* The fixture file: absent, not readable, or a list of fixtures in which
\* a name may stand twice.
OptimizedFiles ==
  NoFile \cup
  { File("found", d) : d \in
      UNION { [1..m -> { Fixture(<< "B" >>), Fixture(<< "B", "I", "v", "a" >>), Fixture(Missing) }]
                : m \in 0..MaxOptimized } }

fixtures == optimized_file.content

\* A plausible slip: the test for an existing document left out.
db_exists_never(name) == FALSE

\* frappe.db.exists("RGS Classification", name)
db_exists(name) == \E m \in 1..Len(docs) : docs[m].name = name

\* fixtures[i:i+batch_size]
fixture_batch ==
  SubSeq(fixtures, fi + 1, Min(fi + fixture_batch_size, Len(fixtures)))

\* What a finished run gave: the value returned, the count, the fixtures
\* reported by the except branch, and the documents after the run.
RunOf(value) ==
  [returned |-> value, loaded_count |-> loaded_count, failed |-> failed,
   docs |-> docs]

InitLoader ==
  /\ optimized_file \in OptimizedFiles
  /\ loader_pc = "open"
  /\ fi = 0
  /\ fk = 0
  /\ loaded_count = 0
  /\ failed = << >>
  /\ runs = << >>
  /\ docs \in { << >>, << Fixture(<< "B" >>) >> }
  /\ committed = Len(docs)
  /\ ignore_update_nsm = FALSE
  /\ rebuild_tree_calls = 0
  /\ fn = "none"
  /\ pc = "done"
  /\ fixture_file = << >>
  /\ rgs_data_sorted = << >>
  /\ level = 0
  /\ pos = 0
  /\ created_count = 0
  /\ errors = << >>
  /\ returned = "not called"
  /\ canonical_data = << >>
  /\ concept_mappings = << >>
  /\ i = 0
  /\ k = 0
  /\ processed_records = << >>
  /\ error_log = << >>
  /\ b = 0
  /\ processed = << >>
  /\ code0 = << >>
  /\ cur = None
  /\ steps = 0
  /\ NoLoad
  /\ NoAccounts

\* The start of a run.  With no fixture file the fallback
\* nl_erpnext_rgs_mkb.utils.load_standard_rgs_fixtures is looked up, which
\* utils.py does not define: get_attr raises and the run returns False, as
\* it does when the file cannot be read.
OpenFixtures ==
  /\ loader_pc = "open"
  /\ loaded_count' = 0
  /\ failed' = << >>
  /\ fi' = 0
  /\ fk' = 0
  /\ IF optimized_file.state = "found"
     THEN /\ loader_pc' = "load"
          /\ UNCHANGED runs
     ELSE /\ loader_pc' = "done"
          /\ runs' = Append(runs, [returned |-> "False", loaded_count |-> 0,
                                   failed |-> << >>, docs |-> docs])
  /\ UNCHANGED << optimized_file, site_vars >>
  /\ UNCHANGED outside_loader

\* One turn of `for fixture in batch`: a fixture with no name and a failing
\* insert are reported and passed over, an existing name is passed over.
LoadFixture ==
  /\ loader_pc = "load"
  /\ fi < Len(fixtures)
  /\ fk < Len(fixture_batch)
  /\ LET fixture == fixture_batch[fk + 1]
     IN  \E inserted \in BOOLEAN :
           IF fixture.name = Missing
           THEN /\ failed' = Append(failed, [name |-> << "u", "n", "k", "n", "o", "w", "n" >>, at |-> "name"])
                /\ UNCHANGED << docs, loaded_count >>
           ELSE IF db_exists(fixture.name)
           THEN UNCHANGED << docs, loaded_count, failed >>
           ELSE IF inserted
           THEN /\ docs' = Append(docs, fixture)
                /\ loaded_count' = loaded_count + 1
                /\ UNCHANGED failed
           ELSE /\ failed' = Append(failed, [name |-> fixture.name, at |-> "insert"])
                /\ UNCHANGED << docs, loaded_count >>
  /\ fk' = fk + 1
  /\ UNCHANGED << optimized_file, loader_pc, fi, runs, committed,
                  ignore_update_nsm, rebuild_tree_calls >>
  /\ UNCHANGED outside_loader

\* The end of a batch: the commit, which may raise and end the run with
\* False.
CommitBatch ==
  /\ loader_pc = "load"
  /\ fi < Len(fixtures)
  /\ fk = Len(fixture_batch)
  /\ \E raising \in BOOLEAN :
       IF raising
       THEN /\ loader_pc' = "done"
            /\ runs' = Append(runs, RunOf("False"))
            /\ UNCHANGED << fi, fk, committed >>
       ELSE /\ committed' = Len(docs)
            /\ fi' = fi + fixture_batch_size
            /\ fk' = 0
            /\ UNCHANGED << loader_pc, runs >>
  /\ UNCHANGED << optimized_file, loaded_count, failed, docs,
                  ignore_update_nsm, rebuild_tree_calls >>
  /\ UNCHANGED outside_loader

\* `return loaded_count` after the last batch.
ReturnCount ==
  /\ loader_pc = "load"
  /\ fi >= Len(fixtures)
  /\ loader_pc' = "done"
  /\ runs' = Append(runs, RunOf("loaded_count"))
  /\ UNCHANGED << optimized_file, fi, fk, loaded_count, failed, site_vars >>
  /\ UNCHANGED outside_loader

\* The function is called again, directly after a run.
RunAgain ==
  /\ loader_pc = "done"
  /\ Len(runs) < MaxRuns
  /\ loader_pc' = "open"
  /\ UNCHANGED << optimized_file, fi, fk, loaded_count, failed, runs,
                  site_vars >>
  /\ UNCHANGED outside_loader

NextLoader ==
  \/ OpenFixtures
  \/ LoadFixture
  \/ CommitBatch
  \/ ReturnCount
  \/ RunAgain

SpecLoader == InitLoader /\ [][NextLoader]_vars

---------------------------------------------------------------------------
(* C30: load_optimized_rgs_fixtures is idempotent on the documents *)

\* The names of the documents.
DocNames == { docs[m].name : m \in 1..Len(docs) }

\* No insert of the run raised.
EveryInsertSucceeded(run) ==
  \A m \in 1..Len(run.failed) : run.failed[m].at # "insert"

\* C30: no fixture is inserted under a name that exists, also when the list
\* holds a name twice; a run that has passed all its fixtures has, for
\* every named fixture, the document or a report of its failing insert;
\* and a second run directly after a run in which every insert succeeded
\* inserts no document.
C30_LoadIsIdempotent ==
  /\ \A x, y \in 1..Len(docs) : docs[x].name = docs[y].name => x = y
  /\ loader_pc = "load" /\ fi >= Len(fixtures) =>
       \A m \in 1..Len(fixtures) :
         fixtures[m].name # Missing =>
           \/ fixtures[m].name \in DocNames
           \/ \E o \in 1..Len(failed) :
                failed[o] = [name |-> fixtures[m].name, at |-> "insert"]
  /\ Len(runs) >= 2 /\ EveryInsertSucceeded(runs[1]) =>
       /\ runs[2].docs = runs[1].docs
       /\ runs[2].loaded_count = 0

\* C30 witness: the first run loaded B and BIva of the list B, B, BIva, and
\* the second run has returned.
C30_Witness ==
  /\ Len(runs) = 2
  /\ Len(fixtures) = 3
  /\ fixtures[1] = fixtures[2]
  /\ runs[1].returned = "loaded_count"
  /\ runs[1].loaded_count = 2
  /\ runs[2].returned = "loaded_count"
=============================================================================
